---- MODULE Spec2Model ----
(***************************************************************************)
(* Verification model of the Quorlin compiler core:                        *)
(*   - the indentation processor (quorlin-lexer/src/indent.rs),            *)
(*   - the type checker and semantic analyzer (quorlin-semantics),         *)
(*   - the security pass (quorlin-semantics/src/security_analyzer.rs),     *)
(*   - the EVM/Yul code generator (quorlin-codegen-evm/src/lib.rs).        *)
(* Each subsystem has its own specification over the shared variables.     *)
(***************************************************************************)
EXTENDS Integers, Sequences, FiniteSets, TLC

VARIABLES
    \* ---- indentation processor (IndentProcessor) ----
    indent_stack,    \* Vec<usize>: stack of indentation levels
    at_line_start,   \* bool
    line,            \* self.line: number of Newline tokens processed + 1
    result,          \* local `result` of process(): tokens emitted so far
    tok,             \* the raw token being processed (type, column, span line)
    src_line,        \* line counter of the raw lexer (span.line of the next token)
    outcome,         \* what process()/tokenize() returned
    \* ---- type checker ----
    tc,              \* last type-compatibility query and its answer
    \* ---- semantic analyzer + security pass ----
    an,              \* SemanticAnalyzer instance state and last analyze() result
    sec,             \* SecurityAnalyzer: module under analysis and returned warnings
    \* ---- EVM code generator ----
    cg,              \* EvmCodegen instance state and last generate() result
    \* ---- execution of the emitted checked-math helpers ----
    evm,             \* the helper called, its arguments and what the call did
    \* ---- storage layout calculation (StorageLayout) ----
    sl,              \* StorageLayout instance and the members it is given
    \* ---- raw lexer (Lexer::raw_tokenize) ----
    raw,             \* lexemes read, nesting level, raw tokens, tokenize() result
    \* ---- parser (Parser) ----
    ps,              \* source lines, their tokens and what parse_module returned
    \* ---- symbol table (SymbolTable) ----
    symtab,          \* SymbolTable instance and the result of the last operation
    \* ---- execution of the Yul emitted for a statement ----
    vm               \* values of the conditions and the branch bodies executed

vars == <<indent_stack, at_line_start, line, result, tok, src_line, outcome, tc, an, sec, cg, evm, sl, raw, ps, symtab, vm>>

lexVars == <<indent_stack, at_line_start, line, result, tok, src_line, outcome>>

(***************************************************************************)
(* Bounds                                                                  *)
(***************************************************************************)
MaxCol == 5          \* columns of line-leading tokens range over 1..MaxCol
MaxTokens == 7       \* raw tokens fed to one process() call
MaxSkipped == 1      \* newlines the raw lexer drops (inside brackets/docstrings)
MaxBodyLen == 2      \* statements in a generated function body
MaxCalls == 2        \* calls of analyze()/generate() on one instance
MaxMembers == 3      \* members of a contract whose storage is laid out
WordBits == 3        \* width w of the words the emitted helpers are run on

(***************************************************************************)
(* Generic helpers                                                         *)
(***************************************************************************)
Last(s) == s[Len(s)]

RECURSIVE Repeat(_, _)
Repeat(x, n) == IF n <= 0 THEN <<>> ELSE <<x>> \o Repeat(x, n - 1)

RECURSIVE CountType(_, _)
CountType(s, ty) ==
    IF s = <<>> THEN 0
    ELSE (IF Head(s).type = ty THEN 1 ELSE 0) + CountType(Tail(s), ty)

(***************************************************************************)
(* Indentation processor                                                   *)
(***************************************************************************)
Token(ty, ln) == [type |-> ty, line |-> ln]

NoToken == [type |-> "None", column |-> 0, line |-> 0]

NoOutcome == [kind |-> "none", tokens |-> <<>>, line |-> 0]

\* `while let Some(&level) = last() { if level <= indent_level {break}; pop() }`
\* Mutant: pops a single level only.
DedentPopsOnce(stack, indent_level) ==
    IF Len(stack) > 0 /\ Last(stack) > indent_level
    THEN SubSeq(stack, 1, Len(stack) - 1)
    ELSE stack

\* Mutant: `level < indent_level` in place of `level <= indent_level`, the
\* level of the token is popped as well.
RECURSIVE DedentPopsEqual(_, _)
DedentPopsEqual(stack, indent_level) ==
    IF Len(stack) = 0 THEN stack
    ELSE IF Last(stack) < indent_level THEN stack
    ELSE DedentPopsEqual(SubSeq(stack, 1, Len(stack) - 1), indent_level)

RECURSIVE DedentPops(_, _)
DedentPops(stack, indent_level) ==
    IF Len(stack) = 0 THEN stack
    ELSE IF Last(stack) <= indent_level THEN stack
    ELSE DedentPops(SubSeq(stack, 1, Len(stack) - 1), indent_level)

\* EOF loop: `while self.indent_stack.len() > 1 { pop; push Dedent }`
\* gives the number of Dedent tokens emitted at end of input.
\* Mutant: the base level is counted as well / no level is closed.
EofDedentsNone(stack) == 0

\* Mutant: `if` in place of `while`, a single level is closed.
EofDedentsOne(stack) == IF Len(stack) > 1 THEN 1 ELSE 0

EofDedents(stack) == IF Len(stack) > 1 THEN Len(stack) - 1 ELSE 0

InitLex ==
    /\ indent_stack = <<0>>
    /\ at_line_start = TRUE
    /\ line = 1
    /\ result = <<>>
    /\ tok = NoToken
    /\ src_line = 1
    /\ outcome = NoOutcome

Running == outcome.kind = "none"

RawCount == Len(SelectSeq(result, LAMBDA t : t.type \in {"Tok", "Newline"}))

\* The source holds a line break that makes no token: a Newline read while
\* nesting_level > 0 is dropped, and a line break inside a skipped
\* docstring or inside a string literal is part of no Newline, at the start
\* of a line as well as inside one.  No token reaches the processor, but
\* the spans of later tokens carry a larger line number.
RawSkippedNewline ==
    /\ Running
    /\ src_line - line < MaxSkipped
    /\ src_line' = src_line + 1
    /\ UNCHANGED <<indent_stack, at_line_start, line, result, tok, outcome, tc, an, sec, cg, evm, sl, raw, ps, symtab, vm>>

\* One iteration of the `for token in raw_tokens` loop on a Newline token.
ProcessNewline ==
    /\ Running
    /\ RawCount < MaxTokens
    /\ tok' = [type |-> "Newline", column |-> 0, line |-> src_line]
    /\ result' = Append(result, Token("Newline", src_line))
    /\ at_line_start' = TRUE
    /\ line' = line + 1
    /\ src_line' = src_line + 1
    /\ UNCHANGED <<indent_stack, outcome, tc, an, sec, cg, evm, sl, raw, ps, symtab, vm>>

\* One iteration of the loop on a non-Newline token that does not start a
\* line (`if self.at_line_start` is false): the token is copied through and
\* its column is not inspected (recorded as 0).
ProcessInlineToken ==
    /\ Running
    /\ RawCount < MaxTokens
    /\ ~at_line_start
    /\ tok' = [type |-> "Tok", column |-> 0, line |-> src_line]
    /\ result' = Append(result, Token("Tok", src_line))
    /\ UNCHANGED <<indent_stack, at_line_start, line, src_line, outcome, tc, an, sec, cg, evm, sl, raw, ps, symtab, vm>>

\* One iteration of the loop on the non-Newline token that starts a line,
\* at column `col`.
ProcessToken(col) ==
    /\ Running
    /\ RawCount < MaxTokens
    /\ at_line_start
    /\ tok' = [type |-> "Tok", column |-> col, line |-> src_line]
    /\ at_line_start' = FALSE
    /\ UNCHANGED <<line, src_line, tc, an, sec, cg, evm, sl, raw, ps, symtab, vm>>
    /\ LET indent_level == col - 1
           current_indent == Last(indent_stack)
       IN  IF indent_level > current_indent
           THEN /\ indent_stack' = Append(indent_stack, indent_level)
                /\ result' = result \o <<Token("Indent", src_line), Token("Tok", src_line)>>
                /\ UNCHANGED outcome
           ELSE IF indent_level < current_indent
           THEN LET popped == DedentPops(indent_stack, indent_level)
                    n == Len(indent_stack) - Len(popped)
                    dedents == Repeat(Token("Dedent", src_line), n)
                IN  /\ indent_stack' = popped
                    /\ IF Len(popped) = 0 \/ Last(popped) # indent_level
                       THEN /\ result' = result \o dedents
                            /\ outcome' = [kind |-> "err", tokens |-> <<>>, line |-> src_line]
                       ELSE /\ result' = (result \o dedents) \o <<Token("Tok", src_line)>>
                            /\ UNCHANGED outcome
           ELSE /\ result' = Append(result, Token("Tok", src_line))
                /\ UNCHANGED <<indent_stack, outcome>>

\* End of the raw token list: close the open levels, emit Eof, return Ok.
ProcessEof ==
    /\ Running
    /\ LET n == EofDedents(indent_stack)
           final == (result \o Repeat(Token("Dedent", line), n)) \o <<Token("Eof", line)>>
       IN  /\ indent_stack' = SubSeq(indent_stack, 1, Len(indent_stack) - n)
           /\ result' = final
           /\ outcome' = [kind |-> "ok", tokens |-> final, line |-> 0]
    /\ tok' = NoToken
    /\ UNCHANGED <<at_line_start, line, src_line, tc, an, sec, cg, evm, sl, raw, ps, symtab, vm>>

Init ==
    /\ InitLex
    /\ tc = 0 /\ an = 0 /\ sec = 0 /\ cg = 0 /\ evm = 0 /\ sl = 0
    /\ raw = 0 /\ ps = 0 /\ symtab = 0 /\ vm = 0

Next ==
    \/ RawSkippedNewline
    \/ ProcessNewline
    \/ ProcessInlineToken
    \/ \E col \in 1..MaxCol : ProcessToken(col)
    \/ ProcessEof

Spec == Init /\ [][Next]_vars

(***************************************************************************)
(* Types (quorlin-parser/src/ast.rs, enum Type)                            *)
(***************************************************************************)
Simple(n) == [k |-> "Simple", name |-> n]
ListOf(t) == [k |-> "List", elem |-> t]
Mapping(kt, vt) == [k |-> "Mapping", key |-> kt, value |-> vt]
Optional(t) == [k |-> "Optional", elem |-> t]
FixedArray(t, n) == [k |-> "FixedArray", elem |-> t, size |-> n]
TupleOf(ts) == [k |-> "Tuple", elems |-> ts]

Unknown == Simple("unknown")

UintNames == {"uint8", "uint16", "uint32", "uint64", "uint128", "uint256"}
IntNames == {"int8", "int16", "int32", "int64", "int128", "int256"}

\* fn is_numeric_type(ty: &str) -> bool
is_numeric_type(ty) == ty \in UintNames \cup IntNames

\* fn get_type_size(ty: &str) -> u32
get_type_size(ty) ==
    CASE ty \in {"uint8", "int8"} -> 8
      [] ty \in {"uint16", "int16"} -> 16
      [] ty \in {"uint32", "int32"} -> 32
      [] ty \in {"uint64", "int64"} -> 64
      [] ty \in {"uint128", "int128"} -> 128
      [] ty \in {"uint256", "int256"} -> 256
      [] OTHER -> 0

\* fn can_promote(from, to) -> bool
can_promote(from, to) == get_type_size(from) <= get_type_size(to)

\* fn types_compatible(expected: &Type, found: &Type) -> bool
RECURSIVE types_compatible(_, _)
types_compatible(expected, found) ==
    IF expected.k = "Simple" /\ found.k = "Simple"
    THEN IF expected.name = found.name THEN TRUE
         ELSE IF is_numeric_type(expected.name) /\ is_numeric_type(found.name)
              THEN can_promote(found.name, expected.name)
              ELSE FALSE
    ELSE IF expected.k = "List" /\ found.k = "List"
    THEN types_compatible(expected.elem, found.elem)
    ELSE IF expected.k = "Mapping" /\ found.k = "Mapping"
    THEN types_compatible(expected.key, found.key)
         /\ types_compatible(expected.value, found.value)
    ELSE FALSE

NoErr == [kind |-> "none"]
TypeMismatch == [kind |-> "TypeMismatch"]

\* fn check_type_compatibility(expected, found) -> SemanticResult<()>
check_type_compatibility(expected, found) ==
    IF types_compatible(expected, found) THEN NoErr ELSE TypeMismatch

\* The types the type-checker specification queries.
SimpleNames == UintNames \cup IntNames
                 \cup {"bool", "address", "str", "bytes32", "None", "void", "unknown"}
SimpleTypes == {Simple(n) : n \in SimpleNames}
ElemTypes == {Simple(n) : n \in {"uint8", "uint256", "int8", "bool", "address", "unknown"}}
QueryTypes ==
    SimpleTypes
      \cup {ListOf(t) : t \in ElemTypes}
      \cup {Optional(t) : t \in {Simple("uint256"), Unknown}}
      \cup {Mapping(kt, vt) : kt \in {Simple("address"), Unknown},
                              vt \in {Simple("uint8"), Simple("uint256"), Unknown}}

InitTypes ==
    /\ InitLex
    /\ tc = [asked |-> FALSE, expected |-> Unknown, found |-> Unknown,
             compatible |-> FALSE, check |-> NoErr]
    /\ an = 0 /\ sec = 0 /\ cg = 0 /\ evm = 0 /\ sl = 0
    /\ raw = 0 /\ ps = 0 /\ symtab = 0 /\ vm = 0

\* One call of check_type_compatibility(expected, found).
CheckCompat(expected, found) ==
    /\ tc' = [asked |-> TRUE, expected |-> expected, found |-> found,
              compatible |-> types_compatible(expected, found),
              check |-> check_type_compatibility(expected, found)]
    /\ UNCHANGED <<lexVars, an, sec, cg, evm, sl, raw, ps, symtab, vm>>

NextTypes == \E expected \in QueryTypes, found \in QueryTypes : CheckCompat(expected, found)

SpecTypes == InitTypes /\ [][NextTypes]_vars

(***************************************************************************)
(* AST (quorlin-parser/src/ast.rs)                                         *)
(***************************************************************************)
None == [some |-> FALSE]
Some(x) == [some |-> TRUE, v |-> x]

IntLiteral(n) == [k |-> "IntLiteral", v |-> n]
StringLiteral(n) == [k |-> "StringLiteral", v |-> n]
BoolLiteral(b) == [k |-> "BoolLiteral", v |-> b]
HexLiteral(n) == [k |-> "HexLiteral", v |-> n]
NoneLiteral == [k |-> "NoneLiteral"]
Ident(n) == [k |-> "Ident", name |-> n]
BinOp(l, op, r) == [k |-> "BinOp", left |-> l, op |-> op, right |-> r]
UnaryOp(op, e) == [k |-> "UnaryOp", op |-> op, operand |-> e]
Call(f, args) == [k |-> "Call", func |-> f, args |-> args]
Attribute(b, a) == [k |-> "Attribute", base |-> b, attr |-> a]
Index(b, i) == [k |-> "Index", base |-> b, index |-> i]
ListExpr(es) == [k |-> "List", elems |-> es]
TupleExpr(es) == [k |-> "Tuple", elems |-> es]

Assign(target, ann, value) ==
    [k |-> "Assign", target |-> target, type_annotation |-> ann, value |-> value]
Return(optExpr) == [k |-> "Return", value |-> optExpr]
Pass == [k |-> "Pass"]
ExprStmt(e) == [k |-> "Expr", expr |-> e]
If(cond, then_branch, elif_branches, else_branch) ==
    [k |-> "If", condition |-> cond, then_branch |-> then_branch,
     elif_branches |-> elif_branches, else_branch |-> else_branch]
For(var, iterable, body) == [k |-> "For", variable |-> var, iterable |-> iterable, body |-> body]
While(cond, body) == [k |-> "While", condition |-> cond, body |-> body]
Require(cond) == [k |-> "Require", condition |-> cond]
Emit(event, args) == [k |-> "Emit", event |-> event, args |-> args]

Param(n, t) == [name |-> n, type_annotation |-> t]
StateVar(n, t) == [k |-> "StateVar", name |-> n, type_annotation |-> t, initial_value |-> None]
Function(n, decorators, params, ret, body) ==
    [k |-> "Function", name |-> n, decorators |-> decorators, params |-> params,
     return_type |-> ret, body |-> body]
Event(n, params) == [k |-> "Event", name |-> n, params |-> params]
Contract(n, body) == [k |-> "Contract", name |-> n, body |-> body]
Module(items) == [items |-> items]

SelfAttr(x) == Attribute(Ident("self"), x)
MsgSender == Attribute(Ident("msg"), "sender")

(***************************************************************************)
(* Symbol table (quorlin-semantics/src/symbol_table.rs)                    *)
(***************************************************************************)
VariableSym(ty) == [kind |-> "Variable", ty |-> ty]
FunctionSym(n) == [kind |-> "Function", name |-> n]

EmptyScope == <<>>

DuplicateDefinition == [kind |-> "DuplicateDefinition"]
UndefinedFunction == [kind |-> "UndefinedFunction"]
InvalidDecorator == [kind |-> "InvalidDecorator"]

\* SymbolTable::new + SemanticAnalyzer::new
NewAnalyzer ==
    [scopes |-> <<EmptyScope>>, events |-> {}, contracts |-> {},
     current_function |-> None, initialized_vars |-> {},
     function_return_types |-> <<>>, err |-> NoErr]

Failed(A) == A.err # NoErr

\* Mutant: the innermost scope is popped without the length test.
exit_scope_unguarded(A) == [A EXCEPT !.scopes = SubSeq(A.scopes, 1, Len(A.scopes) - 1)]

\* SymbolTable::enter_scope / exit_scope
enter_scope(A) == [A EXCEPT !.scopes = Append(A.scopes, EmptyScope)]

exit_scope(A) ==
    IF Len(A.scopes) > 1
    THEN [A EXCEPT !.scopes = SubSeq(A.scopes, 1, Len(A.scopes) - 1)]
    ELSE A

\* A define that replaces an existing binding instead of refusing it.
define_symbol_overwrite(A, name, sym) ==
    [A EXCEPT !.scopes[Len(A.scopes)] =
        (name :> sym) @@ A.scopes[Len(A.scopes)]]

\* Scope::define through SymbolTable::define_variable / define_function
define_symbol(A, name, sym) ==
    LET top == Last(A.scopes)
    IN  IF name \in DOMAIN top
        THEN [A EXCEPT !.err = DuplicateDefinition]
        ELSE [A EXCEPT !.scopes[Len(A.scopes)] = top @@ (name :> sym)]

define_variable(A, name, ty) == define_symbol(A, name, VariableSym(ty))

define_function(A, name) == define_symbol(A, name, FunctionSym(name))

define_event(A, name) ==
    IF name \in A.events THEN [A EXCEPT !.err = DuplicateDefinition]
    ELSE [A EXCEPT !.events = A.events \cup {name}]

define_contract(A, name) ==
    IF name \in A.contracts THEN [A EXCEPT !.err = DuplicateDefinition]
    ELSE [A EXCEPT !.contracts = A.contracts \cup {name}]

\* SymbolTable::lookup_variable: innermost scope first, Variable symbols only.
RECURSIVE lookup_in(_, _, _)
lookup_in(scopes, i, name) ==
    IF i = 0 THEN None
    ELSE IF name \in DOMAIN scopes[i] /\ scopes[i][name].kind = "Variable"
    THEN Some(scopes[i][name].ty)
    ELSE lookup_in(scopes, i - 1, name)

lookup_variable(A, name) == lookup_in(A.scopes, Len(A.scopes), name)

(***************************************************************************)
(* Semantic analyzer (quorlin-semantics/src/lib.rs)                        *)
(***************************************************************************)
TyOk(t) == [err |-> NoErr, ty |-> t]
TyErr(e) == [err |-> e, ty |-> Unknown]

BoolType == Simple("bool")

ArithOps == {"Add", "Sub", "Mul", "Div", "Mod", "Pow"}
CompareOps == {"Eq", "NotEq", "Lt", "LtEq", "Gt", "GtEq"}
LogicOps == {"And", "Or"}

\* fn infer_binop_type(left, right, op) -> SemanticResult<Type>
infer_binop_type(left, right, op) ==
    IF op \in ArithOps
    THEN IF /\ left.k = "Simple" /\ right.k = "Simple"
            /\ is_numeric_type(left.name) /\ is_numeric_type(right.name)
         THEN TyOk(Simple(IF get_type_size(left.name) >= get_type_size(right.name)
                          THEN left.name ELSE right.name))
         ELSE TyErr(TypeMismatch)
    ELSE IF op \in CompareOps THEN TyOk(BoolType)
    ELSE IF op \in LogicOps
    THEN IF /\ left.k = "Simple" /\ right.k = "Simple"
            /\ left.name = "bool" /\ right.name = "bool"
         THEN TyOk(BoolType)
         ELSE TyErr(TypeMismatch)
    ELSE TyOk(Unknown)

TypeConstructorNames ==
    UintNames \cup IntNames \cup {"address", "bytes32", "bytes", "str", "bool"}

IndexNumericNames == UintNames

\* The `?` operator on a SemanticResult<Type> inside check_expression: the
\* error is returned, otherwise the rest runs with the type.
TyThen(r, K(_)) == IF r.err # NoErr THEN r ELSE K(r.ty)

\* The `?` operator on a SemanticResult<()> inside check_expression.
Try(err, rest) == IF err # NoErr THEN TyErr(err) ELSE rest

\* The `?` operator inside check_statement: the call ends with the error,
\* otherwise the rest runs.
WithType(A, r, K(_)) == IF r.err # NoErr THEN [A EXCEPT !.err = r.err] ELSE K(r.ty)

Check(A, err, rest) == IF err # NoErr THEN [A EXCEPT !.err = err] ELSE rest

AndThen(A, K(_)) == IF Failed(A) THEN A ELSE K(A)

\* fn check_expression(&mut self, expr) -> SemanticResult<Type>
RECURSIVE check_expression(_, _)
RECURSIVE check_expressions(_, _)
RECURSIVE check_list_rest(_, _, _)
\* Checks the expressions in order and yields the first error (the `?` in
\* the loops over arguments and elements).
check_expressions(A, es) ==
    IF es = <<>> THEN NoErr
    ELSE TyThen(check_expression(A, Head(es)),
                LAMBDA ty : [err |-> check_expressions(A, Tail(es))]).err

\* Expr::List arm: the elements after the first are checked against it.
check_list_rest(A, first_type, es) ==
    IF es = <<>> THEN NoErr
    ELSE TyThen(check_expression(A, Head(es)),
                LAMBDA ty : Try(check_type_compatibility(first_type, ty),
                                [err |-> check_list_rest(A, first_type, Tail(es))])).err

check_expression(A, e) ==
    CASE e.k = "IntLiteral" -> TyOk(Simple("uint256"))
      [] e.k = "StringLiteral" -> TyOk(Simple("str"))
      [] e.k = "BoolLiteral" -> TyOk(BoolType)
      [] e.k = "NoneLiteral" -> TyOk(Simple("None"))
      [] e.k = "HexLiteral" -> TyOk(Simple("bytes32"))
      [] e.k = "Ident" ->
            IF lookup_variable(A, e.name).some
            THEN TyOk(lookup_variable(A, e.name).v) ELSE TyOk(Unknown)
      [] e.k = "BinOp" ->
            TyThen(check_expression(A, e.left), LAMBDA lty :
            TyThen(check_expression(A, e.right), LAMBDA rty :
                infer_binop_type(lty, rty, e.op)))
      [] e.k = "UnaryOp" ->
            TyThen(check_expression(A, e.operand), LAMBDA ty :
                IF e.op = "Not"
                THEN IF ty # BoolType /\ ty # Unknown
                     THEN TyErr(TypeMismatch)
                     ELSE TyOk(BoolType)
                ELSE TyOk(ty))
      [] e.k = "Call" ->
            Try(check_expressions(A, e.args),
                IF e.func.k = "Ident" /\ e.func.name \in TypeConstructorNames
                THEN TyOk(Simple(e.func.name))
                ELSE IF e.func.k = "Ident"
                        /\ e.func.name \in {"safe_add", "safe_sub", "safe_mul", "safe_div"}
                THEN TyOk(Simple("uint256"))
                ELSE IF e.func.k = "Ident" /\ e.func.name \in {"require", "assert"}
                THEN TyOk(Simple("void"))
                ELSE IF e.func.k = "Ident" /\ e.func.name = "range"
                THEN TyOk(ListOf(Simple("uint256")))
                ELSE IF /\ e.func.k = "Attribute"
                        /\ e.func.base.k = "Ident"
                        /\ e.func.base.name = "self"
                        /\ e.func.attr \in DOMAIN A.function_return_types
                THEN IF A.function_return_types[e.func.attr].some
                     THEN TyOk(A.function_return_types[e.func.attr].v)
                     ELSE TyOk(Simple("void"))
                ELSE TyOk(Unknown))
      [] e.k = "Attribute" ->
            TyThen(check_expression(A, e.base), LAMBDA bty :
                IF e.base.k = "Ident" /\ e.base.name = "msg" /\ e.attr = "sender"
                THEN TyOk(Simple("address"))
                ELSE IF e.base.k = "Ident" /\ e.base.name = "msg" /\ e.attr = "value"
                THEN TyOk(Simple("uint256"))
                ELSE IF e.base.k = "Ident" /\ e.base.name = "block"
                        /\ e.attr \in {"timestamp", "number"}
                THEN TyOk(Simple("uint256"))
                ELSE IF e.base.k = "Ident" /\ e.base.name = "self"
                        /\ lookup_variable(A, e.attr).some
                THEN TyOk(lookup_variable(A, e.attr).v)
                ELSE TyOk(bty))
      [] e.k = "Index" ->
            TyThen(check_expression(A, e.base), LAMBDA bty :
            TyThen(check_expression(A, e.index), LAMBDA ity :
                IF bty.k = "Mapping"
                THEN Try(check_type_compatibility(bty.key, ity), TyOk(bty.value))
                ELSE IF bty.k = "List"
                THEN IF ity.k = "Simple" /\ ity.name \notin IndexNumericNames
                     THEN TyErr(TypeMismatch)
                     ELSE TyOk(bty.elem)
                ELSE TyOk(Unknown)))
      [] e.k = "List" ->
            IF e.elems = <<>> THEN TyOk(ListOf(Unknown))
            ELSE TyThen(check_expression(A, Head(e.elems)), LAMBDA first_type :
                     Try(check_list_rest(A, first_type, Tail(e.elems)),
                         TyOk(ListOf(first_type))))
      [] e.k = "Tuple" ->
            Try(check_expressions(A, e.elems),
                TyOk([k |-> "Tuple",
                      elems |-> [j \in 1..Len(e.elems) |-> check_expression(A, e.elems[j]).ty]]))

\* fn infer_target_type(&mut self, target) -> SemanticResult<Type>
infer_target_type(A, target) ==
    CASE target.k = "Ident" ->
            IF lookup_variable(A, target.name).some
            THEN TyOk(lookup_variable(A, target.name).v) ELSE TyOk(Unknown)
      [] target.k = "Attribute" ->
            IF /\ target.base.k = "Ident" /\ target.base.name = "self"
               /\ lookup_variable(A, target.attr).some
            THEN TyOk(lookup_variable(A, target.attr).v)
            ELSE TyOk(Unknown)
      [] target.k = "Index" ->
            TyThen(check_expression(A, target.base), LAMBDA bty :
                IF bty.k = "Mapping" THEN TyOk(bty.value)
                ELSE IF bty.k = "List" THEN TyOk(bty.elem)
                ELSE TyOk(Unknown))
      [] OTHER -> TyOk(Unknown)

\* The repeated test `cond_type != bool && cond_type != unknown`.
not_boolean(t) == t # BoolType /\ t # Unknown

\* `let _ = self.symbols.define_variable(..)`: a duplicate is ignored.
define_variable_ignoring(A, name, ty) ==
    IF name \in DOMAIN Last(A.scopes) THEN A ELSE define_variable(A, name, ty)

\* Stmt::Assign arm, after the type checks: the target is recorded as
\* initialized and, for an identifier, defined.
assign_effect(A, st, value_type, target_type) ==
    IF st.target.k = "Ident"
    THEN define_variable_ignoring(
             [A EXCEPT !.initialized_vars = @ \cup {st.target.name}],
             st.target.name,
             IF st.type_annotation.some THEN st.type_annotation.v
             ELSE IF target_type # Unknown THEN target_type
             ELSE value_type)
    ELSE IF st.target.k = "Attribute"
    THEN [A EXCEPT !.initialized_vars = @ \cup {st.target.attr}]
    ELSE A

\* Stmt::Assign arm of check_statement.
check_assign(A, st) ==
    WithType(A, check_expression(A, st.value), LAMBDA value_type :
    Check(A, IF st.type_annotation.some
             THEN check_type_compatibility(st.type_annotation.v, value_type)
             ELSE NoErr,
    WithType(A, infer_target_type(A, st.target), LAMBDA target_type :
    Check(A, IF target_type # Unknown
             THEN check_type_compatibility(target_type, value_type)
             ELSE NoErr,
          assign_effect(A, st, value_type, target_type)))))

\* Stmt::Return arm, after the value was checked: return_value_type is the
\* Option holding the value's type.
return_effect(A, return_value_type) ==
    IF ~A.current_function.some THEN A
    ELSE LET ctx == [A.current_function.v EXCEPT !.has_return = TRUE]
             A1 == [A EXCEPT !.current_function = Some(ctx)]
         IN  IF return_value_type.some
             THEN IF ctx.return_type.some
                  THEN [A1 EXCEPT !.err = check_type_compatibility(ctx.return_type.v,
                                                                   return_value_type.v)]
                  ELSE A1
             ELSE IF ctx.return_type.some
                  THEN [A1 EXCEPT !.err = TypeMismatch]
                  ELSE A1

\* Stmt::Return arm of check_statement
check_return(A, st) ==
    IF st.value.some
    THEN WithType(A, check_expression(A, st.value.v), LAMBDA ty : return_effect(A, Some(ty)))
    ELSE return_effect(A, None)

\* The condition test shared by Require, If, elif and While.
check_condition(A, cond) ==
    WithType(A, check_expression(A, cond), LAMBDA ty :
        IF not_boolean(ty) THEN [A EXCEPT !.err = TypeMismatch] ELSE A)

\* Mutant: the loop variable is bound in the enclosing scope.
for_scope_shared(A, st) == define_variable(A, st.variable, Simple("uint256"))

\* Stmt::For arm: the scope of the loop is entered and the loop variable is
\* bound in it as uint256.
for_scope(A, st) == define_variable(enter_scope(A), st.variable, Simple("uint256"))

\* fn check_statement(&mut self, stmt) -> SemanticResult<()>
RECURSIVE check_statement(_, _)
RECURSIVE check_statements(_, _)
RECURSIVE check_elifs(_, _)
check_statements(A, stmts) ==
    IF stmts = <<>> \/ Failed(A) THEN A
    ELSE check_statements(check_statement(A, Head(stmts)), Tail(stmts))

check_elifs(A, elifs) ==
    IF elifs = <<>> \/ Failed(A) THEN A
    ELSE check_elifs(check_statements(check_condition(A, Head(elifs)[1]), Head(elifs)[2]),
                     Tail(elifs))

check_else(A, else_branch) ==
    IF else_branch.some THEN check_statements(A, else_branch.v) ELSE A

check_statement(A, st) ==
    CASE st.k = "Assign" -> check_assign(A, st)
      [] st.k = "Return" -> check_return(A, st)
      [] st.k = "Emit" ->
            IF st.event \notin A.events THEN [A EXCEPT !.err = UndefinedFunction]
            ELSE [A EXCEPT !.err = check_expressions(A, st.args)]
      [] st.k = "Require" -> check_condition(A, st.condition)
      [] st.k = "If" ->
            check_else(
                check_elifs(
                    check_statements(check_condition(A, st.condition), st.then_branch),
                    st.elif_branches),
                st.else_branch)
      [] st.k = "While" -> check_statements(check_condition(A, st.condition), st.body)
      [] st.k = "For" ->
            WithType(A, check_expression(A, st.iterable), LAMBDA ty :
            AndThen(for_scope(A, st), LAMBDA A1 :
            AndThen(check_statements([A1 EXCEPT !.initialized_vars = @ \cup {st.variable}],
                                     st.body),
                    LAMBDA A3 : exit_scope(A3))))
      [] st.k = "Expr" -> [A EXCEPT !.err = check_expression(A, st.expr).err]
      [] st.k = "Raise" -> [A EXCEPT !.err = check_expressions(A, st.args)]
      [] OTHER -> A

\* validator.rs: VALID_FUNCTION_DECORATORS and validate_decorator
VALID_FUNCTION_DECORATORS == {"public", "view", "internal", "payable", "external", "constructor"}

validate_decorators(decorators) ==
    IF \A i \in 1..Len(decorators) : decorators[i] \in VALID_FUNCTION_DECORATORS
    THEN NoErr ELSE InvalidDecorator

RECURSIVE define_params(_, _)
define_params(A, params) ==
    IF params = <<>> \/ Failed(A) THEN A
    ELSE AndThen(define_variable(A, Head(params).name, Head(params).type_annotation),
                 LAMBDA A1 : define_params(
                     [A1 EXCEPT !.initialized_vars = @ \cup {Head(params).name}],
                     Tail(params)))

\* fn check_contract_member(&mut self, member)
check_contract_member(A, member) ==
    IF member.k # "Function" THEN A
    ELSE IF validate_decorators(member.decorators) # NoErr
    THEN [A EXCEPT !.err = InvalidDecorator]
    ELSE AndThen(
             check_statements(
                 define_params(
                     enter_scope([A EXCEPT !.current_function =
                         Some([name |-> member.name, return_type |-> member.return_type,
                               has_return |-> FALSE])]),
                     member.params),
                 member.body),
             LAMBDA A3 : [exit_scope(A3) EXCEPT !.current_function = None])

\* fn collect_contract_member(&mut self, member)
collect_contract_member(A, member) ==
    IF member.k = "StateVar"
    THEN AndThen(define_variable(A, member.name, member.type_annotation),
                 LAMBDA A1 : IF ~member.initial_value.some THEN A1
                             ELSE [A1 EXCEPT !.initialized_vars = @ \cup {member.name}])
    ELSE IF member.k = "Function"
    THEN AndThen(define_function(A, member.name),
                 LAMBDA A1 : [A1 EXCEPT !.function_return_types =
                                  (member.name :> member.return_type) @@ @])
    ELSE A

RECURSIVE collect_members(_, _)
collect_members(A, members) ==
    IF members = <<>> \/ Failed(A) THEN A
    ELSE collect_members(collect_contract_member(A, Head(members)), Tail(members))

\* fn collect_definitions(&mut self, item)
collect_definitions(A, item) ==
    IF item.k = "Event" THEN define_event(A, item.name)
    ELSE IF item.k = "Contract"
    THEN AndThen(define_contract(A, item.name), LAMBDA A1 :
         AndThen(collect_members(enter_scope(A1), item.body), LAMBDA A2 : exit_scope(A2)))
    ELSE A

RECURSIVE redefine_state_vars(_, _)
redefine_state_vars(A, members) ==
    IF members = <<>> \/ Failed(A) THEN A
    ELSE IF Head(members).k = "StateVar"
    THEN redefine_state_vars(
             collect_contract_member(A, Head(members)), Tail(members))
    ELSE redefine_state_vars(A, Tail(members))

RECURSIVE check_members(_, _)
check_members(A, members) ==
    IF members = <<>> \/ Failed(A) THEN A
    ELSE check_members(check_contract_member(A, Head(members)), Tail(members))

\* Mutant: the contract scope is not left after the members were checked.
check_item_keeps_scope(A, item) ==
    IF item.k # "Contract" THEN A
    ELSE check_members(redefine_state_vars(enter_scope(A), item.body), item.body)

\* fn check_item(&mut self, item)
check_item(A, item) ==
    IF item.k # "Contract" THEN A
    ELSE AndThen(check_members(redefine_state_vars(enter_scope(A), item.body), item.body),
                 LAMBDA A2 : exit_scope(A2))

RECURSIVE collect_all(_, _)
collect_all(A, items) ==
    IF items = <<>> \/ Failed(A) THEN A
    ELSE collect_all(collect_definitions(A, Head(items)), Tail(items))

RECURSIVE check_all(_, _)
check_all(A, items) ==
    IF items = <<>> \/ Failed(A) THEN A
    ELSE check_all(check_item(A, Head(items)), Tail(items))

\* The first two passes of SemanticAnalyzer::analyze on an instance in
\* state A: what the call leaves in the instance, with `err` the result.
analyze_passes(A, module) ==
    check_all(collect_all([A EXCEPT !.err = NoErr], module.items), module.items)

(***************************************************************************)
(* Security pass (quorlin-semantics/src/security_analyzer.rs)              *)
(***************************************************************************)
Warning(kind, function) == [kind |-> kind, function |-> function]

RECURSIVE SeqToSet(_)
SeqToSet(q) == IF q = <<>> THEN {} ELSE {Head(q)} \cup SeqToSet(Tail(q))

\* First loop of SecurityAnalyzer::analyze: the names of all state variables.
state_variables_of(module) ==
    UNION {{m.name : m \in {x \in SeqToSet(item.body) : x.k = "StateVar"}} :
              item \in {i \in SeqToSet(module.items) : i.k = "Contract"}}

\* fn is_state_variable_access(&self, expr) -> bool
RECURSIVE is_state_variable_access(_, _)
is_state_variable_access(sv, e) ==
    IF e.k = "Attribute"
    THEN e.base.k = "Ident" /\ e.base.name = "self" /\ e.attr \in sv
    ELSE IF e.k = "Index" THEN is_state_variable_access(sv, e.base)
    ELSE FALSE

\* fn statement_modifies_state / fn function_modifies_state
RECURSIVE statement_modifies_state(_, _)
RECURSIVE function_modifies_state(_, _)
function_modifies_state(sv, body) ==
    \E i \in 1..Len(body) : statement_modifies_state(sv, body[i])

statement_modifies_state(sv, st) ==
    CASE st.k = "Assign" ->
            \/ /\ st.target.k = "Attribute"
               /\ st.target.base.k = "Ident"
               /\ st.target.base.name = "self"
               /\ st.target.attr \in sv
            \/ /\ st.target.k = "Index"
               /\ is_state_variable_access(sv, st.target.base)
      [] st.k = "If" ->
            \/ function_modifies_state(sv, st.then_branch)
            \/ \E j \in 1..Len(st.elif_branches) :
                   function_modifies_state(sv, st.elif_branches[j][2])
            \/ (st.else_branch.some /\ function_modifies_state(sv, st.else_branch.v))
      [] st.k = "For" -> function_modifies_state(sv, st.body)
      [] st.k = "While" -> function_modifies_state(sv, st.body)
      [] OTHER -> FALSE

\* fn expression_checks_sender(&self, expr) -> bool
RECURSIVE expression_checks_sender(_)
expression_checks_sender(e) ==
    IF e.k = "BinOp"
    THEN expression_checks_sender(e.left) \/ expression_checks_sender(e.right)
    ELSE IF e.k = "Attribute"
    THEN e.base.k = "Ident" /\ e.base.name = "msg" /\ e.attr = "sender"
    ELSE FALSE

\* fn statement_has_access_control / fn has_access_control_check
RECURSIVE statement_has_access_control(_)
RECURSIVE has_access_control_check(_)
has_access_control_check(body) ==
    \E i \in 1..Len(body) : statement_has_access_control(body[i])

statement_has_access_control(st) ==
    CASE st.k = "Require" -> expression_checks_sender(st.condition)
      [] st.k = "If" ->
            \/ expression_checks_sender(st.condition)
            \/ has_access_control_check(st.then_branch)
            \/ \E j \in 1..Len(st.elif_branches) :
                   \/ expression_checks_sender(st.elif_branches[j][1])
                   \/ has_access_control_check(st.elif_branches[j][2])
            \/ (st.else_branch.some /\ has_access_control_check(st.else_branch.v))
      [] OTHER -> FALSE

exempted_functions == {"transfer", "approve", "balance_of", "allowance"}

\* fn check_access_control(&mut self, func): the warnings it pushes.
\* Mutant: the exemption list is not consulted.
check_access_control_no_exemption(sv, func) ==
    IF \E i \in 1..Len(func.decorators) : func.decorators[i] = "view" THEN <<>>
    ELSE IF \E i \in 1..Len(func.decorators) : func.decorators[i] = "constructor" THEN <<>>
    ELSE IF function_modifies_state(sv, func.body) /\ ~has_access_control_check(func.body)
    THEN <<Warning("MissingAccessControl", func.name)>>
    ELSE <<>>

check_access_control(sv, func) ==
    IF \E i \in 1..Len(func.decorators) : func.decorators[i] = "view" THEN <<>>
    ELSE IF \E i \in 1..Len(func.decorators) : func.decorators[i] = "constructor" THEN <<>>
    ELSE IF /\ function_modifies_state(sv, func.body)
            /\ ~has_access_control_check(func.body)
            /\ func.name \notin exempted_functions
    THEN <<Warning("MissingAccessControl", func.name)>>
    ELSE <<>>

\* fn expression_is_external_call(&self, expr) -> bool
expression_is_external_call(e) == e.k = "Call" /\ e.func.k = "Attribute"

\* fn statement_has_external_call / fn has_external_call
RECURSIVE statement_has_external_call(_)
RECURSIVE has_external_call(_)
has_external_call(body) ==
    \E i \in 1..Len(body) : statement_has_external_call(body[i])

statement_has_external_call(st) ==
    CASE st.k = "Expr" -> expression_is_external_call(st.expr)
      [] st.k = "Assign" -> expression_is_external_call(st.value)
      [] st.k = "If" ->
            \/ has_external_call(st.then_branch)
            \/ \E j \in 1..Len(st.elif_branches) : has_external_call(st.elif_branches[j][2])
            \/ (st.else_branch.some /\ has_external_call(st.else_branch.v))
      [] st.k = "For" -> has_external_call(st.body)
      [] st.k = "While" -> has_external_call(st.body)
      [] OTHER -> FALSE

\* fn check_reentrancy(&mut self, func): the warnings it pushes.
check_reentrancy(sv, func) ==
    IF has_external_call(func.body) /\ function_modifies_state(sv, func.body)
    THEN <<Warning("ReentrancyRisk", func.name)>>
    ELSE <<>>

\* fn check_statements_for_bad_pattern(&mut self, body) -> bool
RECURSIVE check_statements_for_bad_pattern(_, _)
RECURSIVE bad_pattern_from(_, _, _, _)
\* The loop of check_statements_for_bad_pattern from statement i on, with
\* the flag found_external_call.
bad_pattern_from(sv, body, i, found_external_call) ==
    IF i > Len(body) THEN FALSE
    ELSE LET st == body[i]
             found == found_external_call \/ statement_has_external_call(st)
             nested ==
                 CASE st.k = "If" ->
                        \/ check_statements_for_bad_pattern(sv, st.then_branch)
                        \/ \E j \in 1..Len(st.elif_branches) :
                               check_statements_for_bad_pattern(sv, st.elif_branches[j][2])
                        \/ (st.else_branch.some
                              /\ check_statements_for_bad_pattern(sv, st.else_branch.v))
                   [] st.k = "For" -> check_statements_for_bad_pattern(sv, st.body)
                   [] st.k = "While" -> check_statements_for_bad_pattern(sv, st.body)
                   [] OTHER -> FALSE
         IN  IF found_external_call /\ statement_modifies_state(sv, st) THEN TRUE
             ELSE IF nested THEN TRUE
             ELSE bad_pattern_from(sv, body, i + 1, found)

check_statements_for_bad_pattern(sv, body) == bad_pattern_from(sv, body, 1, FALSE)

\* fn check_state_change_after_external_call(&mut self, func)
check_state_change_after_external_call(sv, func) ==
    IF check_statements_for_bad_pattern(sv, func.body)
    THEN <<Warning("StateChangeAfterExternalCall", func.name)>>
    ELSE <<>>

\* Mutant: the access control check is skipped.
analyze_function_no_access_check(sv, func) ==
    check_reentrancy(sv, func) \o check_state_change_after_external_call(sv, func)

\* Mutant: the reentrancy check runs after the state-change check.
analyze_function_reentrancy_last(sv, func) ==
    (check_access_control(sv, func) \o check_state_change_after_external_call(sv, func))
        \o check_reentrancy(sv, func)

\* fn analyze_function(&mut self, func)
analyze_function(sv, func) ==
    (check_access_control(sv, func) \o check_reentrancy(sv, func))
        \o check_state_change_after_external_call(sv, func)

RECURSIVE analyze_functions(_, _)
analyze_functions(sv, members) ==
    IF members = <<>> THEN <<>>
    ELSE (IF Head(members).k = "Function" THEN analyze_function(sv, Head(members)) ELSE <<>>)
            \o analyze_functions(sv, Tail(members))

RECURSIVE analyze_contracts(_, _)
analyze_contracts(sv, items) ==
    IF items = <<>> THEN <<>>
    ELSE (IF Head(items).k = "Contract" THEN analyze_functions(sv, Head(items).body) ELSE <<>>)
            \o analyze_contracts(sv, Tail(items))

\* SecurityAnalyzer::analyze(&mut self, module) -> Vec<SecurityWarning>
security_analyze(module) == analyze_contracts(state_variables_of(module), module.items)

(***************************************************************************)
(* EVM code generator (quorlin-codegen-evm).  Generated Yul text is kept   *)
(* as the sequence of its lines; the code of an expression is a sequence   *)
(* of line fragments, the first continuing the line it is inserted in.     *)
(***************************************************************************)
\* String concatenation a + b of two texts split at newlines.
TextCat(a, b) == SubSeq(a, 1, Len(a) - 1) \o <<Last(a) \o Head(b)>> \o Tail(b)

\* format!(...) of a sequence of texts.
RECURSIVE Fmt(_)
Fmt(parts) ==
    IF Len(parts) = 1 THEN parts[1]
    ELSE TextCat(parts[1], Fmt(Tail(parts)))

\* " ".repeat(indent)
RECURSIVE Spaces(_)
Spaces(n) == IF n = 0 THEN "" ELSE " " \o Spaces(n - 1)

\* args.join(", ")
RECURSIVE Join(_)
Join(codes) ==
    IF codes = <<>> THEN <<"">>
    ELSE IF Len(codes) = 1 THEN codes[1]
    ELSE Fmt(<<codes[1], <<", ">>, Join(Tail(codes))>>)

CodeOk(code) == [ok |-> TRUE, code |-> code]
UnsupportedFeature(what) == [ok |-> FALSE, err |-> [kind |-> "UnsupportedFeature", what |-> what]]
ContractNotFound == [ok |-> FALSE, err |-> [kind |-> "ContractNotFound"]]

\* self.<attr> with attr in the storage layout
IsLaidOutSelfAttr(layout, e) ==
    /\ e.k = "Attribute"
    /\ e.base.k = "Ident"
    /\ e.base.name = "self"
    /\ e.attr \in DOMAIN layout

\* Mutant: addition is lowered to the unchecked builtin.
BinOpCodeUnchecked(op) ==
    CASE op = "Add" -> "add"
      [] op = "Sub" -> "checked_sub"
      [] op = "Mul" -> "checked_mul"
      [] op = "Div" -> "checked_div"
      [] op = "Mod" -> "checked_mod"
      [] op = "Eq" -> "eq"
      [] op = "NotEq" -> "iszero(eq"
      [] op = "Lt" -> "lt"
      [] op = "Gt" -> "gt"
      [] op = "LtEq" -> "iszero(gt"
      [] op = "GtEq" -> "iszero(lt"
      [] OTHER -> ""

BinOpCode(op) ==
    CASE op = "Add" -> "checked_add"
      [] op = "Sub" -> "checked_sub"
      [] op = "Mul" -> "checked_mul"
      [] op = "Div" -> "checked_div"
      [] op = "Mod" -> "checked_mod"
      [] op = "Eq" -> "eq"
      [] op = "NotEq" -> "iszero(eq"
      [] op = "Lt" -> "lt"
      [] op = "Gt" -> "gt"
      [] op = "LtEq" -> "iszero(gt"
      [] op = "GtEq" -> "iszero(lt"
      [] OTHER -> ""

SafeMathCalls ==
    [safe_add |-> "checked_add", safe_sub |-> "checked_sub",
     safe_mul |-> "checked_mul", safe_div |-> "checked_div"]

\* generate_expression, arm Expr::Attribute
AttributeCode(layout, e) ==
    IF e.base.k = "Ident" /\ e.base.name = "msg" /\ e.attr = "sender"
    THEN CodeOk(<<"caller()">>)
    ELSE IF e.base.k = "Ident" /\ e.base.name = "msg" /\ e.attr = "value"
    THEN CodeOk(<<"callvalue()">>)
    ELSE IF IsLaidOutSelfAttr(layout, e)
    THEN CodeOk(<<ToString(layout[e.attr])>>)
    ELSE UnsupportedFeature("Attribute access")

\* Mutant: the mapping read stores the slot before the key.
MappingReadCodeSwapped(key_code, slot) ==
    Fmt(<< <<"{", "          mstore(0, " \o ToString(slot) \o ")",
              "          mstore(32, ">>, key_code,
           <<")", "          sload(keccak256(0, 64))", "        }">> >>)

\* generate_expression, arm Expr::Index on self.X: the emitted block
MappingReadCode(key_code, slot) ==
    Fmt(<< <<"{", "          mstore(0, ">>, key_code,
           <<")", "          mstore(32, " \o ToString(slot) \o ")",
             "          sload(keccak256(0, 64))", "        }">> >>)

\* generate_expression, arm Expr::Index on self.X[k1]: the emitted block
NestedMappingReadCode(first_key, second_key, slot) ==
    Fmt(<< <<"{", "          mstore(0, ">>, first_key,
           <<")", "          mstore(32, " \o ToString(slot) \o ")",
             "          let first_slot := keccak256(0, 64)",
             "          mstore(0, ">>, second_key,
           <<")", "          mstore(32, first_slot)",
             "          sload(keccak256(0, 64))", "        }">> >>)

\* The `?` operator on a CodegenResult: the error is returned, otherwise
\* the rest runs with the result.
OnOk(r, K(_)) == IF ~r.ok THEN r ELSE K(r)

\* fn generate_expression(&self, expr) -> CodegenResult<String>
RECURSIVE generate_expression(_, _)
RECURSIVE generate_expressions(_, _)
generate_expressions(layout, es) ==
    IF es = <<>> THEN [ok |-> TRUE, codes |-> <<>>]
    ELSE OnOk(generate_expression(layout, Head(es)), LAMBDA h :
         OnOk(generate_expressions(layout, Tail(es)), LAMBDA t :
             [ok |-> TRUE, codes |-> <<h.code>> \o t.codes]))

\* generate_expression, arm Expr::Call on an identifier, the arguments
\* being generated.
CallCode(fname, codes) ==
    IF fname = "address"
    THEN IF Len(codes) = 1 THEN CodeOk(codes[1])
         ELSE UnsupportedFeature("address() requires 1 argument")
    ELSE IF fname \in DOMAIN SafeMathCalls
    THEN IF Len(codes) = 2
         THEN CodeOk(Fmt(<< <<SafeMathCalls[fname] \o "(">>, codes[1],
                            <<", ">>, codes[2], <<")">> >>))
         ELSE UnsupportedFeature(fname \o " requires 2 arguments")
    ELSE CodeOk(Fmt(<< <<fname \o "(">>, Join(codes), <<")">> >>))

generate_expression(layout, e) ==
    CASE e.k = "IntLiteral" -> CodeOk(<<e.v>>)
      [] e.k = "BoolLiteral" -> CodeOk(IF e.v THEN <<"1">> ELSE <<"0">>)
      [] e.k = "Ident" ->
            IF e.name \in DOMAIN layout
            THEN CodeOk(<<"sload(" \o ToString(layout[e.name]) \o ")">>)
            ELSE CodeOk(<<e.name>>)
      [] e.k = "BinOp" ->
            OnOk(generate_expression(layout, e.left), LAMBDA l :
            OnOk(generate_expression(layout, e.right), LAMBDA r :
                IF BinOpCode(e.op) = "" THEN UnsupportedFeature("BinOp")
                ELSE IF e.op \in {"NotEq", "LtEq", "GtEq"}
                THEN CodeOk(Fmt(<< <<BinOpCode(e.op) \o "(">>, l.code, <<", ">>,
                                   r.code, <<")))">> >>))
                ELSE CodeOk(Fmt(<< <<BinOpCode(e.op) \o "(">>, l.code, <<", ">>,
                                   r.code, <<")">> >>))))
      [] e.k = "Call" ->
            IF e.func.k # "Ident" THEN UnsupportedFeature("Complex function calls")
            ELSE OnOk(generate_expressions(layout, e.args),
                      LAMBDA a : CallCode(e.func.name, a.codes))
      [] e.k = "Attribute" -> AttributeCode(layout, e)
      [] e.k = "Index" ->
            IF IsLaidOutSelfAttr(layout, e.base)
            THEN OnOk(generate_expression(layout, e.index), LAMBDA key :
                     CodeOk(MappingReadCode(key.code, layout[e.base.attr])))
            ELSE IF e.base.k = "Index" /\ IsLaidOutSelfAttr(layout, e.base.base)
            THEN OnOk(generate_expression(layout, e.base.index), LAMBDA first_key :
                 OnOk(generate_expression(layout, e.index), LAMBDA second_key :
                     CodeOk(NestedMappingReadCode(first_key.code, second_key.code,
                                                  layout[e.base.base.attr]))))
            ELSE UnsupportedFeature("Index")
      [] OTHER -> UnsupportedFeature("Expression")

\* The lines of format!("{prefix}{code}{suffix}\n")
Line(prefix, code, suffix) == Fmt(<< <<prefix>>, code, <<suffix>> >>)

\* generate_statement, arm Stmt::Assign on self.X[k]: the emitted lines
MappingWriteCode(ind, key_code, slot, value_code) ==
    Line(ind \o "mstore(0, ", key_code, ")")
      \o <<ind \o "mstore(32, " \o ToString(slot) \o ")">>
      \o Line(ind \o "sstore(keccak256(0, 64), ", value_code, ")")

\* generate_statement, arm Stmt::Assign on self.X[k1][k2]: the emitted lines
NestedMappingWriteCode(ind, first_key, second_key, slot, value_code) ==
    <<ind \o "// Nested mapping assignment">>
      \o Line(ind \o "mstore(0, ", first_key, ")")
      \o <<ind \o "mstore(32, " \o ToString(slot) \o ")">>
      \o <<ind \o "let first_slot := keccak256(0, 64)">>
      \o Line(ind \o "mstore(0, ", second_key, ")")
      \o <<ind \o "mstore(32, first_slot)">>
      \o Line(ind \o "sstore(keccak256(0, 64), ", value_code, ")")

\* generate_statement, arm Stmt::Emit for a known event: one mstore per
\* argument at offsets 0, 32, ...
RECURSIVE EmitArgsCode(_, _, _, _)
EmitArgsCode(layout, ind, args, mem_offset) ==
    IF args = <<>> THEN CodeOk(<<>>)
    ELSE OnOk(generate_expression(layout, Head(args)), LAMBDA a :
         OnOk(EmitArgsCode(layout, ind, Tail(args), mem_offset + 32), LAMBDA rest :
             CodeOk(Line(ind \o "mstore(" \o ToString(mem_offset) \o ", ", a.code, ")")
                      \o rest.code)))

\* generate_statement, arm Stmt::For: start, end and step of range(...)
RangeBounds(layout, args) ==
    IF Len(args) \notin {1, 2, 3}
    THEN UnsupportedFeature("range() requires 1-3 arguments")
    ELSE OnOk(generate_expressions(layout, args), LAMBDA a :
             [ok |-> TRUE,
              start |-> IF Len(args) = 1 THEN <<"0">> ELSE a.codes[1],
              end |-> IF Len(args) = 1 THEN a.codes[1] ELSE a.codes[2],
              step |-> IF Len(args) = 3 THEN a.codes[3] ELSE <<"1">>])

\* fn generate_statement(&self, stmt, indent) -> CodegenResult<String>
RECURSIVE generate_statement(_, _, _)
RECURSIVE generate_statements(_, _, _)
RECURSIVE generate_elifs(_, _, _)
generate_statements(g, stmts, indent) ==
    IF stmts = <<>> THEN CodeOk(<<>>)
    ELSE OnOk(generate_statement(g, Head(stmts), indent), LAMBDA h :
         OnOk(generate_statements(g, Tail(stmts), indent), LAMBDA t :
             CodeOk(h.code \o t.code)))

generate_elifs(g, elifs, indent) ==
    IF elifs = <<>> THEN CodeOk(<<>>)
    ELSE OnOk(generate_expression(g.storage_layout, Head(elifs)[1]), LAMBDA c :
         OnOk(generate_statements(g, Head(elifs)[2], indent + 2), LAMBDA b :
         OnOk(generate_elifs(g, Tail(elifs), indent), LAMBDA t :
             CodeOk(<<Spaces(indent) \o "}">>
                      \o Line(Spaces(indent) \o "if ", c.code, " {")
                      \o b.code \o t.code))))

\* generate_statement, arm Stmt::If: the else branch, when there is one.
generate_else(g, else_branch, indent) ==
    IF else_branch.some
    THEN OnOk(generate_statements(g, else_branch.v, indent + 2), LAMBDA else_code :
             CodeOk(<<Spaces(indent) \o "}", Spaces(indent) \o "// else", Spaces(indent) \o "{">>
                      \o else_code.code))
    ELSE CodeOk(<<>>)

\* generate_statement, arm Stmt::Assign, the value being generated.
generate_assign(layout, ind, target, value_code) ==
    IF target.k = "Ident"
    THEN IF target.name \in DOMAIN layout
         THEN CodeOk(Line(ind \o "sstore(" \o ToString(layout[target.name]) \o ", ",
                          value_code, ")"))
         ELSE CodeOk(Line(ind \o "let " \o target.name \o " := ", value_code, ""))
    ELSE IF target.k = "Index"
    THEN IF IsLaidOutSelfAttr(layout, target.base)
         THEN OnOk(generate_expression(layout, target.index), LAMBDA key :
                  CodeOk(MappingWriteCode(ind, key.code, layout[target.base.attr],
                                          value_code)))
         ELSE IF target.base.k = "Index" /\ IsLaidOutSelfAttr(layout, target.base.base)
         THEN OnOk(generate_expression(layout, target.base.index), LAMBDA first_key :
              OnOk(generate_expression(layout, target.index), LAMBDA second_key :
                  CodeOk(NestedMappingWriteCode(ind, first_key.code, second_key.code,
                                                layout[target.base.base.attr],
                                                value_code))))
         ELSE UnsupportedFeature("Indexed assignment")
    ELSE UnsupportedFeature("Assignment target")

\* Mutant: the loop always steps by 1.
generate_for_unit_step(g, st, indent, r) ==
    OnOk(generate_statements(g, st.body, indent + 1), LAMBDA body :
        CodeOk(Fmt(<< <<Spaces(indent) \o "for { let " \o st.variable \o " := ">>, r.start,
                      <<" } lt(" \o st.variable \o ", ">>, r.end,
                      <<") { " \o st.variable \o " := add(" \o st.variable \o ", 1) }">> >>)
                 \o <<Spaces(indent) \o "{">> \o body.code \o <<Spaces(indent) \o "}">>))

\* generate_statement, arm Stmt::For over range(...), the bounds being
\* generated.
generate_for(g, st, indent, r) ==
    OnOk(generate_statements(g, st.body, indent + 1), LAMBDA body :
        CodeOk(Fmt(<< <<Spaces(indent) \o "for { let " \o st.variable \o " := ">>, r.start,
                      <<" } lt(" \o st.variable \o ", ">>, r.end,
                      <<") { " \o st.variable \o " := add(" \o st.variable \o ", ">>, r.step,
                      <<") }">> >>)
                 \o <<Spaces(indent) \o "{">> \o body.code \o <<Spaces(indent) \o "}">>))

generate_statement(g, st, indent) ==
    LET ind == Spaces(indent)
        layout == g.storage_layout
    IN
    CASE st.k = "Return" ->
            IF st.value.some
            THEN OnOk(generate_expression(layout, st.value.v), LAMBDA e :
                     CodeOk(Line(ind \o "let ret := ", e.code, "")
                              \o <<ind \o "mstore(0, ret)", ind \o "return(0, 32)">>))
            ELSE CodeOk(<<ind \o "return(0, 0)">>)
      [] st.k = "Assign" ->
            OnOk(generate_expression(layout, st.value), LAMBDA value :
                generate_assign(layout, ind, st.target, value.code))
      [] st.k = "Require" ->
            OnOk(generate_expression(layout, st.condition), LAMBDA cond :
                CodeOk(Line(ind \o "if iszero(", cond.code, ") { revert(0, 0) }")))
      [] st.k = "Emit" ->
            IF st.event \in DOMAIN g.event_signatures
            THEN OnOk(EmitArgsCode(layout, ind, st.args, 0), LAMBDA a :
                     CodeOk(a.code \o
                            <<ind \o "log1(0, " \o ToString(Len(st.args) * 32) \o ", "
                                  \o g.event_signatures[st.event] \o ")">>))
            ELSE CodeOk(<<ind \o "// Unknown event: " \o st.event>>)
      [] st.k = "Pass" -> CodeOk(<<ind \o "// pass">>)
      [] st.k = "If" ->
            OnOk(generate_expression(layout, st.condition), LAMBDA cond :
            OnOk(generate_statements(g, st.then_branch, indent + 2), LAMBDA then_code :
            OnOk(generate_elifs(g, st.elif_branches, indent), LAMBDA elifs :
            OnOk(generate_else(g, st.else_branch, indent), LAMBDA else_code :
                CodeOk(Line(ind \o "if ", cond.code, " {")
                         \o then_code.code
                         \o elifs.code
                         \o else_code.code
                         \o <<ind \o "}">>)))))
      [] st.k = "While" ->
            OnOk(generate_expression(layout, st.condition), LAMBDA cond :
            OnOk(generate_statements(g, st.body, indent + 2), LAMBDA body :
                CodeOk(Line(ind \o "for {} ", cond.code, " {}")
                         \o <<ind \o "{">> \o body.code \o <<ind \o "}">>)))
      [] st.k = "For" ->
            IF st.iterable.k # "Call" \/ st.iterable.func.k # "Ident"
            THEN UnsupportedFeature("For loop iterable must be range() call")
            ELSE IF st.iterable.func.name # "range"
            THEN UnsupportedFeature("For loop over " \o st.iterable.func.name
                                       \o " not supported (use range())")
            ELSE OnOk(RangeBounds(layout, st.iterable.args),
                      LAMBDA r : generate_for(g, st, indent, r))
      [] OTHER -> UnsupportedFeature("Statement")

\* fn calculate_selector(&self, name, params) -> u32, printed as 0x{:08x}:
\* the low 32 bits of DefaultHasher over the name and the parameter names,
\* tabulated for the functions of the modules below.
SelectorTable ==
    ("f(to,amount,small)" :> "0xb3c19289")
      @@ ("set(new_value)" :> "0xf0a5222e")
      @@ ("get()" :> "0xc06cf183")
      @@ ("set(k,v)" :> "0x2e9ee7b7")
      @@ ("transfer(to,amount)" :> "0xd44b3d19")
      @@ ("balance_of(account)" :> "0x9ee49222")
      @@ ("put(amount)" :> "0x98d80eb7")
      @@ ("reset()" :> "0x686462e7")
      @@ ("__init__(supply)" :> "0x1c561f0d")
      @@ ("f1()" :> "0x5c2ebea3")
      @@ ("f2()" :> "0xb0941e52")
      @@ ("f3()" :> "0x97a91299")
      @@ ("f4()" :> "0xc9dffe3d")

RECURSIVE ParamNames(_)
ParamNames(params) ==
    IF params = <<>> THEN ""
    ELSE IF Len(params) = 1 THEN params[1].name
    ELSE params[1].name \o "," \o ParamNames(Tail(params))

calculate_selector(name, params) == SelectorTable[name \o "(" \o ParamNames(params) \o ")"]

\* The signature collect_events computes for an event, printed as
\* 0x{:064x}: DefaultHasher over the event name and then every parameter
\* name, tabulated for the events of the modules below.
EventSignatureTable ==
    ("Transfer(from_addr,to,value)"
        :> "0x0000000000000000000000000000000000000000000000006a97fe97d7d8affb")
      @@ ("Transfer(from,to,value)"
        :> "0x0000000000000000000000000000000000000000000000003bf6d3a457bd5bd3")
      @@ ("Transfer(value)"
        :> "0x0000000000000000000000000000000000000000000000000b017349a656031c")
      @@ ("Transfer()"
        :> "0x00000000000000000000000000000000000000000000000035525dd20e385d20")

\* fn collect_events(&mut self, module)
RECURSIVE collect_events(_, _)
collect_events(sigs, items) ==
    IF items = <<>> THEN sigs
    ELSE collect_events(
             IF Head(items).k = "Event"
             THEN (Head(items).name
                     :> EventSignatureTable[Head(items).name \o "("
                                              \o ParamNames(Head(items).params) \o ")"])
                    @@ sigs
             ELSE sigs,
             Tail(items))

\* fn allocate_storage(&mut self, members)
RECURSIVE allocate_storage(_, _)
allocate_storage(g, members) ==
    IF members = <<>> THEN g
    ELSE allocate_storage(
             IF Head(members).k = "StateVar"
             THEN [g EXCEPT !.storage_layout =
                                (Head(members).name :> g.next_storage_slot) @@ g.storage_layout,
                            !.next_storage_slot = g.next_storage_slot + 1]
             ELSE g,
             Tail(members))

\* Loading of the parameters from calldata: one `let` per parameter.
RECURSIVE LoadParams(_, _, _, _)
LoadParams(ind, params, i, base) ==
    IF i > Len(params) THEN <<>>
    ELSE <<ind \o "let " \o params[i].name \o " := calldataload("
               \o ToString(base + (i - 1) * 32) \o ")">>
           \o LoadParams(ind, params, i + 1, base)

FunctionsOf(members) == SelectSeq(members, LAMBDA m : m.k = "Function")

\* fn generate_constructor(&self, members)
ConstructorsOf(members) == SelectSeq(FunctionsOf(members), LAMBDA m : m.name = "__init__")

generate_constructor(g, members) ==
    IF ConstructorsOf(members) = <<>> THEN CodeOk(<<>>)
    ELSE OnOk(generate_statements(g, ConstructorsOf(members)[1].body, 4), LAMBDA body :
             CodeOk(<<"    // Execute constructor">>
                      \o LoadParams("    ", ConstructorsOf(members)[1].params, 1, 0)
                      \o (IF ConstructorsOf(members)[1].params # <<>> THEN <<"">> ELSE <<>>)
                      \o body.code
                      \o <<"">>))

\* Mutant: the constructor is not skipped.
RuntimeFunctionsWithInit(members) == FunctionsOf(members)

RuntimeFunctionsOf(members) == SelectSeq(FunctionsOf(members), LAMBDA m : m.name # "__init__")

RECURSIVE DispatcherCases(_)
DispatcherCases(funcs) ==
    IF funcs = <<>> THEN <<>>
    ELSE <<"      case " \o calculate_selector(Head(funcs).name, Head(funcs).params)
               \o " { " \o Head(funcs).name \o "() }">>
           \o DispatcherCases(Tail(funcs))

\* fn generate_dispatcher(&self, members)
generate_dispatcher(members) ==
    <<"      // Function dispatcher", "      switch selector()">>
      \o DispatcherCases(RuntimeFunctionsOf(members))
      \o <<"      default { revert(0, 0) }", "",
           "      function selector() -> s {",
           "        s := div(calldataload(0), 0x100000000000000000000000000000000000000000000000000000000)",
           "      }", "">>

\* fn generate_functions(&self, members)
RECURSIVE FunctionsCode(_, _)
FunctionsCode(g, funcs) ==
    IF funcs = <<>> THEN CodeOk(<<>>)
    ELSE OnOk(generate_statements(g, Head(funcs).body, 8), LAMBDA body :
         OnOk(FunctionsCode(g, Tail(funcs)), LAMBDA rest :
             CodeOk(<<"      function " \o Head(funcs).name \o "() {">>
                      \o LoadParams("        ", Head(funcs).params, 1, 4)
                      \o (IF Head(funcs).params # <<>> THEN <<"">> ELSE <<>>)
                      \o body.code
                      \o <<"      }", "">>
                      \o rest.code)))

generate_functions(g, members) == FunctionsCode(g, RuntimeFunctionsOf(members))

\* fn generate_checked_math_helpers(&self) -> String
generate_checked_math_helpers ==
    <<"",
      "      // ========================================",
      "      // CHECKED ARITHMETIC HELPERS",
      "      // Prevent integer overflow/underflow",
      "      // ========================================",
      "",
      "      function checked_add(a, b) -> result {",
      "          result := add(a, b)",
      "          // Overflow check: result must be >= a",
      "          if lt(result, a) { revert(0, 0) }",
      "      }",
      "",
      "      function checked_sub(a, b) -> result {",
      "          // Underflow check: a must be >= b",
      "          if lt(a, b) { revert(0, 0) }",
      "          result := sub(a, b)",
      "      }",
      "",
      "      function checked_mul(a, b) -> result {",
      "          result := mul(a, b)",
      "          // Overflow check (except for zero)",
      "          if iszero(b) { leave }",
      "          if iszero(eq(div(result, b), a)) { revert(0, 0) }",
      "      }",
      "",
      "      function checked_div(a, b) -> result {",
      "          // Division by zero check",
      "          if iszero(b) { revert(0, 0) }",
      "          result := div(a, b)",
      "      }",
      "",
      "      function checked_mod(a, b) -> result {",
      "          // Modulo by zero check",
      "          if iszero(b) { revert(0, 0) }",
      "          result := mod(a, b)",
      "      }",
      "",
      "      // ========================================">>

NewCodegen == [storage_layout |-> <<>>, next_storage_slot |-> 0, event_signatures |-> <<>>]

\* generate, after the contract was found: the Yul object assembled from
\* the constructor, the helpers, the dispatcher and the functions.
generate_object(g, contract) ==
    OnOk(generate_constructor(g, contract.body), LAMBDA ctor :
    OnOk(generate_functions(g, contract.body), LAMBDA funcs :
        CodeOk(<<"// Contract: " \o contract.name,
                 "object \"Contract\" {",
                 "  code {",
                 "    // Constructor (deployment) code">>
                 \o ctor.code
                 \o <<"    // Copy runtime code to memory and return it",
                      "    datacopy(0, dataoffset(\"runtime\"), datasize(\"runtime\"))",
                      "    return(0, datasize(\"runtime\"))",
                      "  }",
                      "  object \"runtime\" {",
                      "    code {">>
                 \o generate_checked_math_helpers
                 \o generate_dispatcher(contract.body)
                 \o funcs.code
                 \o <<"    }", "  }", "}">>)))

\* generate: the generator after collect_events and allocate_storage.
prepare(g, module, contract) ==
    allocate_storage(
        [g EXCEPT !.event_signatures = collect_events(g.event_signatures, module.items)],
        contract.body)

ContractsOf(module) == SelectSeq(module.items, LAMBDA it : it.k = "Contract")

\* fn generate(&mut self, module) -> CodegenResult<String>: the generator
\* afterwards and the result.
generate(g, module) ==
    IF ContractsOf(module) = <<>> THEN [g |-> g, result |-> ContractNotFound]
    ELSE [g |-> prepare(g, module, ContractsOf(module)[1]),
          result |-> generate_object(prepare(g, module, ContractsOf(module)[1]),
                                     ContractsOf(module)[1])]

(***************************************************************************)
(* Storage layout calculation (quorlin-codegen-evm/src/storage_layout.rs)  *)
(***************************************************************************)
\* fn calculate_type_size(&self, typ) -> usize
RECURSIVE calculate_type_size(_)
RECURSIVE SumOfSizes(_)
SumOfSizes(types) ==
    IF types = <<>> THEN 0
    ELSE calculate_type_size(Head(types)) + SumOfSizes(Tail(types))

calculate_type_size(typ) ==
    CASE typ.k = "Simple" -> 1
      [] typ.k = "Mapping" -> 1
      [] typ.k = "List" -> 1
      [] typ.k = "FixedArray" -> typ.size * calculate_type_size(typ.elem)
      [] typ.k = "Optional" -> calculate_type_size(typ.elem)
      [] typ.k = "Tuple" -> SumOfSizes(typ.elems)

\* StorageLayout::new()
NewStorageLayout == [slots |-> <<>>, next_slot |-> 0]

\* fn allocate_variable(&mut self, var)
allocate_variable(L, var) ==
    [slots |-> (var.name :> [slot |-> L.next_slot,
                             var_type |-> var.type_annotation,
                             size |-> calculate_type_size(var.type_annotation)]) @@ L.slots,
     next_slot |-> L.next_slot + calculate_type_size(var.type_annotation)]

\* fn allocate(&mut self, members)
RECURSIVE allocate(_, _)
allocate(L, members) ==
    IF members = <<>> THEN L
    ELSE allocate(IF Head(members).k = "StateVar" THEN allocate_variable(L, Head(members)) ELSE L,
                  Tail(members))

(***************************************************************************)
(* Execution of the helpers emitted by generate_checked_math_helpers on    *)
(* words of WordBits bits.  The builtins are those of the EVM: add, sub    *)
(* and mul wrap, div and mod by zero give zero.                            *)
(***************************************************************************)
RECURSIVE Pow2(_)
Pow2(n) == IF n = 0 THEN 1 ELSE 2 * Pow2(n - 1)

Words == 0..(Pow2(WordBits) - 1)

yul_add(a, b) == (a + b) % Pow2(WordBits)
yul_sub(a, b) == (a - b) % Pow2(WordBits)
yul_mul(a, b) == (a * b) % Pow2(WordBits)
yul_div(a, b) == IF b = 0 THEN 0 ELSE a \div b
yul_mod(a, b) == IF b = 0 THEN 0 ELSE a % b
yul_lt(a, b) == IF a < b THEN 1 ELSE 0
yul_eq(a, b) == IF a = b THEN 1 ELSE 0
yul_iszero(a) == IF a = 0 THEN 1 ELSE 0

Reverted == [reverted |-> TRUE]
Returned(r) == [reverted |-> FALSE, result |-> r]

\* function checked_add(a, b) -> result
checked_add(a, b) ==
    IF yul_lt(yul_add(a, b), a) # 0 THEN Reverted
    ELSE Returned(yul_add(a, b))

\* function checked_sub(a, b) -> result
checked_sub(a, b) ==
    IF yul_lt(a, b) # 0 THEN Reverted
    ELSE Returned(yul_sub(a, b))

\* Mutant: the early `leave` for b = 0 is dropped.
checked_mul_no_leave(a, b) ==
    IF yul_iszero(yul_eq(yul_div(yul_mul(a, b), b), a)) # 0 THEN Reverted
    ELSE Returned(yul_mul(a, b))

\* function checked_mul(a, b) -> result
checked_mul(a, b) ==
    IF yul_iszero(b) # 0 THEN Returned(yul_mul(a, b))
    ELSE IF yul_iszero(yul_eq(yul_div(yul_mul(a, b), b), a)) # 0 THEN Reverted
    ELSE Returned(yul_mul(a, b))

\* function checked_div(a, b) -> result
checked_div(a, b) ==
    IF yul_iszero(b) # 0 THEN Reverted
    ELSE Returned(yul_div(a, b))

\* function checked_mod(a, b) -> result
checked_mod(a, b) ==
    IF yul_iszero(b) # 0 THEN Reverted
    ELSE Returned(yul_mod(a, b))

HelperNames == {"checked_add", "checked_sub", "checked_mul", "checked_div", "checked_mod"}

call_helper(name, a, b) ==
    CASE name = "checked_add" -> checked_add(a, b)
      [] name = "checked_sub" -> checked_sub(a, b)
      [] name = "checked_mul" -> checked_mul(a, b)
      [] name = "checked_div" -> checked_div(a, b)
      [] name = "checked_mod" -> checked_mod(a, b)

(***************************************************************************)
(* Input modules                                                           *)
(***************************************************************************)
Uint256 == Simple("uint256")
Address == Simple("address")

StdStateVars ==
    <<StateVar("value", Uint256),
      StateVar("owner", Address),
      StateVar("balances", Mapping(Address, Uint256)),
      StateVar("allowances", Mapping(Address, Mapping(Address, Uint256)))>>

StdParams == <<Param("to", Address), Param("amount", Uint256), Param("small", Simple("uint8"))>>

\* A contract T with the standard state variables and one function.
GenModule(name, decorators, ret, body) ==
    Module(<<Contract("T", StdStateVars \o <<Function(name, decorators, StdParams, ret, body)>>)>>)

\* Scenario E1.
E1Module ==
    Module(<<Contract("SimpleStorage",
        <<StateVar("value", Uint256),
          Function("set", <<>>, <<Param("new_value", Uint256)>>, None,
                   <<Assign(SelfAttr("value"), None, Ident("new_value"))>>),
          Function("get", <<>>, <<>>, Some(Uint256),
                   <<Return(Some(SelfAttr("value")))>>)>>)>>)

\* Scenario E4, and E4 with the require prepended.
E4Body == <<Assign(SelfAttr("owner"), None, Ident("to"))>>
E4Guard == Require(BinOp(MsgSender, "Eq", SelfAttr("owner")))

E4Module ==
    Module(<<Contract("T",
        <<StateVar("owner", Address),
          Function("drain", <<>>, <<Param("to", Address)>>, None, E4Body)>>)>>)

E4GuardedModule ==
    Module(<<Contract("T",
        <<StateVar("owner", Address),
          Function("drain", <<>>, <<Param("to", Address)>>, None, <<E4Guard>> \o E4Body)>>)>>)

UnresolvedCall == Call(Ident("foo"), <<>>)
AmountPositive == BinOp(Ident("amount"), "Gt", IntLiteral("0"))

SenderIsOwner == BinOp(MsgSender, "Eq", SelfAttr("owner"))
SetOwner == Assign(SelfAttr("owner"), None, Ident("to"))
SetBalance == Assign(Index(SelfAttr("balances"), Ident("to")), None, Ident("amount"))
SetAllowance ==
    Assign(Index(Index(SelfAttr("allowances"), MsgSender), Ident("to")), None, Ident("amount"))

\* Values returned by the generated functions of the analyzer specification.
ReturnValues ==
    {IntLiteral("1"), BoolLiteral(TRUE), Ident("small"), Ident("to"),
     UnresolvedCall, SelfAttr("value")}

SemaStmts ==
    {Return(None)}
      \cup {Return(Some(e)) : e \in ReturnValues}
      \cup {Assign(SelfAttr("value"), None, Ident("amount")),
            Assign(SelfAttr("value"), None, UnresolvedCall),
            Assign(Ident("x"), Some(Uint256), UnresolvedCall),
            Assign(Ident("y"), None, IntLiteral("1")),
            Assign(Index(SelfAttr("balances"), UnresolvedCall), None, Ident("amount")),
            Pass,
            If(AmountPositive, <<Return(Some(Ident("amount")))>>, <<>>, None),
            For("i", Call(Ident("range"), <<Ident("amount")>>), <<Pass>>),
            While(AmountPositive, <<Return(None)>>)}

SemaReturnTypes == {None, Some(Uint256), Some(BoolType), Some(Simple("uint8"))}

SemaScenarios == {E1Module, E4Module, E4GuardedModule}

(***************************************************************************)
(* Specification of the analyzer: analyze() called on one instance.       *)
(***************************************************************************)
Pending == [kind |-> "pending"]

InitSema ==
    /\ InitLex
    /\ tc = 0 /\ sec = 0 /\ cg = 0 /\ evm = 0 /\ sl = 0
    /\ raw = 0 /\ ps = 0 /\ symtab = 0 /\ vm = 0
    /\ \/ \E ret \in SemaReturnTypes, len \in 1..MaxBodyLen :
             \E body \in [1..len -> SemaStmts] :
                an = [inst |-> NewAnalyzer, input |-> GenModule("f", <<>>, ret, body),
                      calls |-> 0, result |-> Pending, warnings |-> <<>>]
       \/ \E m \in SemaScenarios :
             an = [inst |-> NewAnalyzer, input |-> m, calls |-> 0,
                   result |-> Pending, warnings |-> <<>>]

\* SemanticAnalyzer::analyze(&mut self, module): the two checking passes and,
\* when they succeed, the security pass whose warnings are printed.
Analyze ==
    /\ an.calls < MaxCalls
    /\ LET A1 == analyze_passes(an.inst, an.input)
       IN  an' = [inst |-> A1, input |-> an.input, calls |-> an.calls + 1,
                  result |-> A1.err,
                  warnings |-> IF A1.err = NoErr THEN security_analyze(an.input) ELSE <<>>]
    /\ UNCHANGED <<lexVars, tc, sec, cg, evm, sl, raw, ps, symtab, vm>>

NextSema == Analyze

SpecSema == InitSema /\ [][NextSema]_vars

(***************************************************************************)
(* Specification of the code generator: generate() called on one           *)
(* EvmCodegen instance.                                                    *)
(***************************************************************************)
ReadBalance == Index(SelfAttr("balances"), Ident("to"))
ReadAllowance == Index(Index(SelfAttr("allowances"), Ident("to")), MsgSender)
DeepIndex == Index(Index(Index(SelfAttr("allowances"), Ident("to")), Ident("to")), Ident("to"))

CgStmts ==
    {Assign(SelfAttr("value"), None, Ident("amount")),
     Assign(Ident("value"), None, Ident("amount")),
     Assign(Ident("x"), None, IntLiteral("1")),
     SetBalance, SetAllowance,
     Assign(Index(SelfAttr("balances"), MsgSender), None, Ident("amount")),
     Assign(Index(SelfAttr("balances"), Ident("to")), None,
            BinOp(ReadBalance, "Add", Ident("amount"))),
     Assign(DeepIndex, None, Ident("amount")),
     Assign(Index(SelfAttr("ghost"), Ident("to")), None, Ident("amount")),
     Return(None),
     Return(Some(SelfAttr("value"))),
     Return(Some(ReadBalance)),
     Return(Some(ReadAllowance)),
     Return(Some(DeepIndex)),
     Return(Some(BinOp(Ident("amount"), "Add", IntLiteral("1")))),
     Require(SenderIsOwner),
     If(AmountPositive, <<SetBalance>>,
        <<<<BinOp(Ident("amount"), "NotEq", IntLiteral("0")), <<Pass>>>>>>, Some(<<Return(None)>>)),
     For("i", Call(Ident("range"), <<Ident("amount")>>), <<SetBalance>>),
     While(AmountPositive, <<Pass>>),
     Emit("Transfer", <<MsgSender, Ident("to"), Ident("amount")>>),
     ExprStmt(UnresolvedCall),
     Pass}

\* Scenario E3.
E3Module ==
    Module(<<Contract("T",
        <<StateVar("balances", Mapping(Address, Uint256)),
          Function("set", <<>>, <<Param("k", Address), Param("v", Uint256)>>, None,
                   <<Assign(Index(SelfAttr("balances"), Ident("k")), None, Ident("v"))>>)>>)>>)

\* A token with an event, a constructor and two runtime functions.
TokenModule ==
    Module(<<Event("Transfer", <<Param("from_addr", Address), Param("to", Address),
                                 Param("value", Uint256)>>),
             Contract("SimpleToken",
        <<StateVar("balances", Mapping(Address, Uint256)),
          Function("__init__", <<"constructor">>, <<Param("supply", Uint256)>>, None,
                   <<Assign(Index(SelfAttr("balances"), MsgSender), None, Ident("supply"))>>),
          Function("transfer", <<"external">>, <<Param("to", Address), Param("amount", Uint256)>>,
                   Some(BoolType),
                   <<Require(BinOp(Index(SelfAttr("balances"), MsgSender), "GtEq", Ident("amount"))),
                     Assign(Index(SelfAttr("balances"), Ident("to")), None,
                            BinOp(ReadBalance, "Add", Ident("amount"))),
                     Emit("Transfer", <<MsgSender, Ident("to"), Ident("amount")>>),
                     Return(Some(BoolLiteral(TRUE)))>>),
          Function("balance_of", <<"view">>, <<Param("account", Address)>>, Some(Uint256),
                   <<Return(Some(Index(SelfAttr("balances"), Ident("account"))))>>)>>)>>)

\* A module without any contract.
EventOnlyModule == Module(<<Event("Transfer", <<Param("value", Uint256)>>)>>)

\* Statements with each arithmetic operator, each safe_* call, nested
\* arithmetic, a call to a function the program names `add`, and a loop.
ArithStmts ==
    {Return(Some(BinOp(Ident("amount"), op, Ident("small")))) :
         op \in {"Add", "Sub", "Mul", "Div", "Mod"}}
      \cup {Assign(Ident("x"), None, Call(Ident(f), <<Ident("amount"), Ident("small")>>)) :
               f \in {"safe_add", "safe_sub", "safe_mul", "safe_div"}}
      \cup {Assign(Ident("x"), None,
                    BinOp(BinOp(Ident("amount"), "Mul", Ident("small")), "Sub", IntLiteral("1"))),
            Assign(Ident("y"), None, Call(Ident("add"), <<Ident("amount"), Ident("small")>>)),
            For("i", Call(Ident("range"), <<BinOp(Ident("amount"), "Add", IntLiteral("1"))>>),
                <<SetBalance>>)}

\* Functions of the contracts whose dispatcher is generated.
DispatchFunctions ==
    {Function("__init__", <<"constructor">>, <<Param("supply", Uint256)>>, None,
              <<Assign(Ident("x"), None, Ident("supply"))>>),
     Function("get", <<"view">>, <<>>, Some(Uint256), <<Return(Some(IntLiteral("1")))>>),
     Function("put", <<>>, <<Param("amount", Uint256)>>, None,
              <<Assign(Ident("x"), None, Ident("amount"))>>),
     Function("reset", <<>>, <<>>, None, <<Pass>>)}

\* Contracts with up to MaxMembers of these functions, in every order.
DispatchModules ==
    UNION {{Module(<<Contract("D", fs)>>) :
               fs \in {q \in [1..n -> DispatchFunctions] :
                          \A i, j \in 1..n : i # j => q[i].name # q[j].name}} :
           n \in 1..MaxMembers}

CgScenarios == DispatchModules \cup {E1Module, E3Module, TokenModule, EventOnlyModule}

\* The generated module: a function f with a body of CgStmts or of
\* ArithStmts, or a scenario.
InitCodegen ==
    /\ InitLex
    /\ tc = 0 /\ an = 0 /\ sec = 0 /\ evm = 0 /\ sl = 0
    /\ raw = 0 /\ ps = 0 /\ symtab = 0 /\ vm = 0
    /\ \/ \E stmts \in {CgStmts, ArithStmts}, len \in 1..MaxBodyLen :
             \E body \in [1..len -> stmts] :
                cg = [g |-> NewCodegen, input |-> GenModule("f", <<>>, None, body),
                      calls |-> 0, result |-> Pending]
       \/ \E m \in CgScenarios :
             cg = [g |-> NewCodegen, input |-> m, calls |-> 0, result |-> Pending]

Generate ==
    /\ cg.calls < MaxCalls
    /\ LET out == generate(cg.g, cg.input)
       IN  cg' = [g |-> out.g, input |-> cg.input, calls |-> cg.calls + 1, result |-> out.result]
    /\ UNCHANGED <<lexVars, tc, an, sec, evm, sl, raw, ps, symtab, vm>>

NextCodegen == Generate

SpecCodegen == InitCodegen /\ [][NextCodegen]_vars

(***************************************************************************)
(* Specification of the helpers: one call of an emitted helper on two      *)
(* words.                                                                  *)
(***************************************************************************)
InitHelpers ==
    /\ InitLex
    /\ tc = 0 /\ an = 0 /\ sec = 0 /\ cg = 0 /\ sl = 0
    /\ raw = 0 /\ ps = 0 /\ symtab = 0 /\ vm = 0
    /\ \E name \in HelperNames, a \in Words, b \in Words :
          evm = [helper |-> name, a |-> a, b |-> b, done |-> FALSE, out |-> Pending]

CallHelper ==
    /\ ~evm.done
    /\ evm' = [evm EXCEPT !.done = TRUE, !.out = call_helper(evm.helper, evm.a, evm.b)]
    /\ UNCHANGED <<lexVars, tc, an, sec, cg, sl, raw, ps, symtab, vm>>

NextHelpers == CallHelper

SpecHelpers == InitHelpers /\ [][NextHelpers]_vars

(***************************************************************************)
(* Specification of the storage layouts: generate() on an EvmCodegen       *)
(* instance and allocate() on a StorageLayout instance, both given the     *)
(* same contract.                                                          *)
(***************************************************************************)
\* The types of the state variables laid out.
LayoutTypes ==
    {Uint256,
     Mapping(Address, Uint256),
     ListOf(Uint256),
     Optional(Uint256),
     Optional(TupleOf(<<Uint256, Address>>)),
     TupleOf(<<Uint256, Address>>),
     FixedArray(Uint256, 3)}

FunctionMember == [k |-> "Fn"]

\* The i-th member of a laid-out contract: state variable v<i> of the given
\* type, or function f<i>.
MemberAt(i, kind) ==
    IF kind = FunctionMember
    THEN Function("f" \o ToString(i), <<>>, <<>>, None, <<Pass>>)
    ELSE StateVar("v" \o ToString(i), kind)

LayoutModules ==
    UNION {{Module(<<Contract("L", [i \in 1..n |-> MemberAt(i, kinds[i])])>>) :
               kinds \in [1..n -> LayoutTypes \cup {FunctionMember}]} :
           n \in 1..MaxMembers}

InitLayout ==
    /\ InitLex
    /\ tc = 0 /\ an = 0 /\ sec = 0 /\ evm = 0
    /\ raw = 0 /\ ps = 0 /\ symtab = 0 /\ vm = 0
    /\ \E m \in LayoutModules :
          /\ cg = [g |-> NewCodegen, input |-> m, calls |-> 0, result |-> Pending]
          /\ sl = [layout |-> NewStorageLayout, input |-> m.items[1].body, calls |-> 0]

\* StorageLayout::allocate(&mut self, members)
Allocate ==
    /\ sl.calls < MaxCalls
    /\ sl' = [sl EXCEPT !.layout = allocate(sl.layout, sl.input), !.calls = sl.calls + 1]
    /\ UNCHANGED <<lexVars, tc, an, sec, cg, evm, raw, ps, symtab, vm>>

NextLayout == Generate \/ Allocate

SpecLayout == InitLayout /\ [][NextLayout]_vars

(***************************************************************************)
(* Specification of the for statement: a module with for statements is     *)
(* given to analyze() of a new analyzer and to generate() of a new code    *)
(* generator.                                                              *)
(***************************************************************************)
Range(args) == Call(Ident("range"), args)

\* For statements over range with 0 to 4 arguments, and over a variable, a
\* state variable, a list, another function and a method.
ForStmts ==
    {For("i", Range(<<>>), <<Pass>>),
     For("i", Range(<<Ident("amount")>>), <<Pass>>),
     For("k", Range(<<Ident("small"), Ident("amount")>>),
         <<Assign(Ident("x"), None, Ident("k"))>>),
     For("i", Range(<<IntLiteral("1"), Ident("amount"), IntLiteral("2")>>), <<Pass>>),
     For("j", Range(<<Ident("amount"), IntLiteral("9"), Ident("small")>>),
         <<Assign(Ident("x"), None, Ident("j"))>>),
     For("i", Range(<<IntLiteral("1"), Ident("amount"), IntLiteral("2"), IntLiteral("3")>>),
         <<Pass>>),
     For("i", Ident("amount"), <<Pass>>),
     For("i", SelfAttr("balances"), <<Pass>>),
     For("i", ListExpr(<<IntLiteral("1"), IntLiteral("2")>>), <<Pass>>),
     For("i", Call(Ident("enumerate"), <<Ident("amount")>>), <<Pass>>),
     For("i", Call(Attribute(Ident("token"), "holders"), <<>>), <<Pass>>)}

InitForLoops ==
    /\ InitLex
    /\ tc = 0 /\ sec = 0 /\ evm = 0 /\ sl = 0
    /\ raw = 0 /\ ps = 0 /\ symtab = 0 /\ vm = 0
    /\ \E len \in 1..MaxBodyLen :
          \E body \in [1..len -> ForStmts] :
             /\ an = [inst |-> NewAnalyzer, input |-> GenModule("f", <<>>, None, body),
                      calls |-> 0, result |-> Pending, warnings |-> <<>>]
             /\ cg = [g |-> NewCodegen, input |-> GenModule("f", <<>>, None, body),
                      calls |-> 0, result |-> Pending]

NextForLoops == Analyze \/ Generate

SpecForLoops == InitForLoops /\ [][NextForLoops]_vars

(***************************************************************************)
(* Specification of the security pass: SecurityAnalyzer::analyze called on *)
(* one module.                                                             *)
(***************************************************************************)

SecStmts ==
    {SetOwner, SetBalance, SetAllowance,
     Assign(Ident("x"), None, IntLiteral("1")),
     Assign(SelfAttr("ghost"), None, IntLiteral("1")),
     Require(SenderIsOwner),
     Require(AmountPositive),
     Require(UnaryOp("Not", SenderIsOwner)),
     If(SenderIsOwner, <<SetOwner>>, <<>>, None),
     If(AmountPositive, <<SetOwner>>, <<>>, None),
     If(AmountPositive, <<Require(SenderIsOwner)>>, <<>>, None),
     If(AmountPositive, <<Pass>>, <<<<SenderIsOwner, <<Pass>>>>>>, Some(<<SetBalance>>)),
     For("i", Call(Ident("range"), <<Ident("amount")>>), <<SetBalance>>),
     While(AmountPositive, <<Require(SenderIsOwner)>>),
     While(AmountPositive, <<If(AmountPositive, <<SetAllowance>>, <<>>, None)>>),
     Pass}

\* token.send(amount): a call whose callee is an attribute.
ExternalCall == Call(Attribute(Ident("token"), "send"), <<Ident("amount")>>)
InternalCall == Call(Ident("helper"), <<Ident("amount")>>)
RangeOfAmount == Call(Ident("range"), <<Ident("amount")>>)

\* Statements with an external call in each position an expression can take,
\* and state mutations before, after and around them.
ReentrancyStmts ==
    {SetBalance,
     ExprStmt(ExternalCall),
     ExprStmt(InternalCall),
     Assign(Ident("x"), None, ExternalCall),
     Assign(Ident("x"), None, BinOp(ExternalCall, "Add", IntLiteral("1"))),
     Require(ExternalCall),
     Return(Some(ExternalCall)),
     Emit("Transfer", <<ExternalCall>>),
     If(AmountPositive, <<ExprStmt(ExternalCall)>>, <<>>, None),
     If(AmountPositive, <<Pass>>, <<>>, Some(<<SetBalance>>)),
     If(AmountPositive, <<ExprStmt(ExternalCall)>>, <<>>, Some(<<SetBalance>>)),
     While(AmountPositive, <<ExprStmt(ExternalCall), SetBalance>>),
     While(AmountPositive, <<SetBalance, ExprStmt(ExternalCall)>>),
     For("i", RangeOfAmount, <<ExprStmt(ExternalCall)>>)}

SecNames == {"drain", "transfer", "approve", "balance_of", "allowance"}
SecDecorators == {<<>>, <<"view">>, <<"constructor">>, <<"external">>}

SecScenarios == {E1Module, E4Module, E4GuardedModule}

\* The analyzed module: a function of every name and decorator with a body
\* of SecStmts, a function drain with a body of ReentrancyStmts, or a
\* scenario.
InitSecurity ==
    /\ InitLex
    /\ tc = 0 /\ an = 0 /\ cg = 0 /\ evm = 0 /\ sl = 0
    /\ raw = 0 /\ ps = 0 /\ symtab = 0 /\ vm = 0
    /\ \/ \E n \in SecNames, d \in SecDecorators, len \in 1..MaxBodyLen :
             \E body \in [1..len -> SecStmts] :
                sec = [input |-> GenModule(n, d, None, body), calls |-> 0, warnings |-> <<>>]
       \/ \E len \in 1..MaxBodyLen :
             \E body \in [1..len -> ReentrancyStmts] :
                sec = [input |-> GenModule("drain", <<>>, None, body), calls |-> 0,
                       warnings |-> <<>>]
       \/ \E m \in SecScenarios : sec = [input |-> m, calls |-> 0, warnings |-> <<>>]

\* SecurityAnalyzer::analyze(&mut self, module): clears both fields and
\* recomputes the warnings.
SecurityAnalyze ==
    /\ sec.calls < MaxCalls
    /\ sec' = [input |-> sec.input, calls |-> sec.calls + 1,
               warnings |-> security_analyze(sec.input)]
    /\ UNCHANGED <<lexVars, tc, an, cg, evm, sl, raw, ps, symtab, vm>>

NextSecurity == SecurityAnalyze

SpecSecurity == InitSecurity /\ [][NextSecurity]_vars

(***************************************************************************)
(* Raw lexer (quorlin-lexer/src/lexer.rs) and tokenize()                   *)
(***************************************************************************)
OpenTypes == {"LParen", "LBracket", "LBrace"}
CloseTypes == {"RParen", "RBracket", "RBrace"}

\* What lexer.next() returns: the token type (InvalidType for Err, a
\* character that begins no token), the column of the text in its physical
\* line, the length of the text, the number of line breaks inside the
\* docstrings skipped in front of it and the number of line breaks inside
\* the text of a string literal (the one break of a Newline is not
\* counted in `breaks`).
InvalidType == "Invalid"
LexemeAt(ty, col, width, skipped, breaks) ==
    [type |-> ty, column |-> col, width |-> width, skipped |-> skipped, breaks |-> breaks]

\* A lexeme of one physical line that follows no docstring.
Lexeme(ty, col, width) == LexemeAt(ty, col, width, 0, 0)

\* The line breaks in the text of a lexeme.
BreaksIn(lx) == IF lx.type = "Newline" THEN 1 ELSE lx.breaks

\* Token::new(token_type, Span::new(start, end, line, column)); pos stands
\* for span.start, the index of the lexeme in the source (0 for the tokens
\* the processor makes at EOF), and width is span.end - span.start (0 for
\* every token the processor makes).
RawToken(ty, col, ln, pos, width) ==
    [type |-> ty, column |-> col, line |-> ln, pos |-> pos, width |-> width]

\* State of the loop of raw_tokenize: `line` is the line of the last
\* lexeme matched; failed, err_line and err_column hold the InvalidToken the
\* loop returned.
NewRawLexer ==
    [source |-> <<>>, nesting_level |-> 0, line |-> 1, tokens |-> <<>>,
     failed |-> FALSE, err_line |-> 0, err_column |-> 0]

\* `source_before.matches('\n').count()`: the line breaks between
\* line_start and the start of the lexeme are those of the lexeme matched
\* before it and those of the docstrings skipped since.
newlines_before(R, lx) ==
    (IF R.source = <<>> THEN 0 ELSE BreaksIn(Last(R.source))) + lx.skipped

\* Mutant: the counter is decremented below zero.
nesting_after_unguarded(level, ty) ==
    IF ty \in OpenTypes THEN level + 1
    ELSE IF ty \in CloseTypes THEN level - 1
    ELSE level

\* `match token_type { LParen | LBracket | LBrace => nesting_level += 1, ... }`
nesting_after(level, ty) ==
    IF ty \in OpenTypes THEN level + 1
    ELSE IF ty \in CloseTypes THEN (IF level > 0 THEN level - 1 ELSE level)
    ELSE level

\* One iteration of `while let Some(token_result) = lexer.next()`: the line
\* is brought up to the lexeme; Err returns InvalidToken { line, column };
\* a Newline read while nesting_level > 0 is skipped (`continue`), every
\* other token is pushed.
raw_step(R, lx) ==
    IF R.failed THEN R
    ELSE IF lx.type = InvalidType
    THEN [R EXCEPT !.source = Append(@, lx),
                   !.line = @ + newlines_before(R, lx),
                   !.failed = TRUE,
                   !.err_line = R.line + newlines_before(R, lx),
                   !.err_column = lx.column]
    ELSE [R EXCEPT !.source = Append(@, lx),
                   !.nesting_level = nesting_after(@, lx.type),
                   !.line = @ + newlines_before(R, lx),
                   !.tokens = IF lx.type = "Newline" /\ R.nesting_level > 0
                              THEN @
                              ELSE Append(@, RawToken(lx.type, lx.column,
                                                      R.line + newlines_before(R, lx),
                                                      Len(R.source) + 1, lx.width))]

RECURSIVE raw_steps(_, _)
raw_steps(R, lexemes) ==
    IF lexemes = <<>> THEN R
    ELSE raw_steps(raw_step(R, Head(lexemes)), Tail(lexemes))

\* Result<Vec<Token>, LexerError>: Ok(tokens), Err(InvalidToken { line,
\* column }) or Err(IndentationError(..)), which names the line.
LexOk(tokens) == [ok |-> TRUE, tokens |-> tokens, error |-> "", line |-> 0, column |-> 0]
LexErr(error, ln, col) ==
    [ok |-> FALSE, tokens |-> <<>>, error |-> error, line |-> ln, column |-> col]

\* raw_tokenize, what the loop returns.
raw_result(R) ==
    IF R.failed THEN LexErr("InvalidToken", R.err_line, R.err_column) ELSE LexOk(R.tokens)

\* fn raw_tokenize(&self) -> Result<Vec<Token>, LexerError>
raw_tokenize(lexemes) == raw_result(raw_steps(NewRawLexer, lexemes))

\* IndentProcessor::new()
NewProcessor ==
    [indent_stack |-> <<0>>, at_line_start |-> TRUE, line |-> 1, column |-> 1,
     result |-> <<>>, failed |-> FALSE, err_line |-> 0]

\* `self.column = token.span.column + (token.span.end - token.span.start)`
column_after(t) == t.column + t.width

\* process(), the arm of a line-start token below the current level: the
\* stack after the pops being `popped`.
dedent_to(P, t, popped) ==
    IF Len(popped) = 0 \/ Last(popped) # t.column - 1
    THEN [P EXCEPT !.indent_stack = popped, !.at_line_start = FALSE,
                   !.failed = TRUE, !.err_line = t.line]
    ELSE [P EXCEPT !.indent_stack = popped, !.at_line_start = FALSE,
                   !.column = column_after(t),
                   !.result = (@ \o Repeat(RawToken("Dedent", 1, t.line, t.pos, 0),
                                           Len(P.indent_stack) - Len(popped)))
                                \o <<t>>]

\* process(), one iteration of `for token in raw_tokens`.
process_token(P, t) ==
    IF P.failed THEN P
    ELSE IF t.type = "Newline"
    THEN [P EXCEPT !.result = Append(@, t), !.at_line_start = TRUE, !.line = @ + 1,
                   !.column = 1]
    ELSE IF ~P.at_line_start
    THEN [P EXCEPT !.column = column_after(t), !.result = Append(@, t)]
    ELSE IF t.column - 1 > Last(P.indent_stack)
    THEN [P EXCEPT !.indent_stack = Append(@, t.column - 1), !.at_line_start = FALSE,
                   !.column = column_after(t),
                   !.result = @ \o <<RawToken("Indent", 1, t.line, t.pos, 0), t>>]
    ELSE IF t.column - 1 < Last(P.indent_stack)
    THEN dedent_to(P, t, DedentPops(P.indent_stack, t.column - 1))
    ELSE [P EXCEPT !.at_line_start = FALSE, !.column = column_after(t),
                   !.result = Append(@, t)]

RECURSIVE process_tokens(_, _)
process_tokens(P, tokens) ==
    IF tokens = <<>> THEN P
    ELSE process_tokens(process_token(P, Head(tokens)), Tail(tokens))

\* process(), after the loop: Err of the failing iteration, or the Dedents
\* of the open levels and Eof, which stands at the column after the last
\* token of the last line (column 1 after a Newline).
process_end(P) ==
    IF P.failed THEN LexErr("IndentationError", P.err_line, 0)
    ELSE LexOk((P.result \o Repeat(RawToken("Dedent", 1, P.line, 0, 0),
                                   EofDedents(P.indent_stack)))
                 \o <<RawToken("Eof", P.column, P.line, 0, 0)>>)

\* pub fn process(&mut self, raw_tokens) on a new processor.
process(raw_tokens) == process_end(process_tokens(NewProcessor, raw_tokens))

\* tokenize, after `let raw_tokens = self.raw_tokenize()?`.
tokenize_raw(r) == IF ~r.ok THEN r ELSE process(r.tokens)

\* pub fn tokenize(&self) -> Result<Vec<Token>, LexerError>
tokenize(lexemes) == tokenize_raw(raw_tokenize(lexemes))

(***************************************************************************)
(* Specification of the raw lexer: raw_tokenize reads one lexeme per step; *)
(* at the end of the source, or after a character that is no token,        *)
(* tokenize returns the error of raw_tokenize or what process() makes of   *)
(* the raw tokens.                                                         *)
(***************************************************************************)
MaxLexemes == 4      \* lexemes of one source
LineCols == {1, 3, 5}
RawTypes == {"LParen", "RBracket", "Ident", "Newline"}

\* A bracket and a line break are one character long, an identifier is
\* one or more.
IdentWidths == {1, 2}

\* The string literal "<LF>" (a line break between its quotes) and the
\* Newline that ends the last line of a docstring of two lines closed by
\* `"""` alone, at column 4.
BrokenString(col) == LexemeAt("StringLiteral", col, 3, 0, 1)
DocstringEnd == LexemeAt("Newline", 4, 1, 1, 0)

\* The column of the next lexeme: any of LineCols at the start of a
\* physical line, right after the previous lexeme otherwise (after the
\* closing quote of a string literal that ends with a line break).
NextColumns(source) ==
    IF source = <<>> \/ Last(source).type = "Newline" THEN LineCols
    ELSE IF Last(source).breaks > 0 THEN {2}
    ELSE {Last(source).column + Last(source).width}

\* What lexer.next() can return after the source read so far.
NextLexemes(source) ==
    {Lexeme(ty, col, 1) : ty \in RawTypes \cup {InvalidType}, col \in NextColumns(source)}
      \cup {Lexeme("Ident", col, width) : col \in NextColumns(source), width \in IdentWidths}
      \cup {BrokenString(col) : col \in NextColumns(source)}
      \cup {DocstringEnd}

InitRaw ==
    /\ InitLex
    /\ tc = 0 /\ an = 0 /\ sec = 0 /\ cg = 0 /\ evm = 0 /\ sl = 0
    /\ ps = 0 /\ symtab = 0 /\ vm = 0
    /\ raw = [lexer |-> NewRawLexer, done |-> FALSE, out |-> 0]

ReadLexeme ==
    /\ ~raw.done
    /\ ~raw.lexer.failed
    /\ Len(raw.lexer.source) < MaxLexemes
    /\ \E lx \in NextLexemes(raw.lexer.source) :
          raw' = [raw EXCEPT !.lexer = raw_step(raw.lexer, lx)]
    /\ UNCHANGED <<lexVars, tc, an, sec, cg, evm, sl, ps, symtab, vm>>

\* raw_tokenize returns, at the end of the source or with InvalidToken, and
\* tokenize goes on from its result.
EndOfSource ==
    /\ ~raw.done
    /\ raw' = [raw EXCEPT !.done = TRUE, !.out = tokenize_raw(raw_result(raw.lexer))]
    /\ UNCHANGED <<lexVars, tc, an, sec, cg, evm, sl, ps, symtab, vm>>

NextRaw == ReadLexeme \/ EndOfSource

SpecRaw == InitRaw /\ [][NextRaw]_vars

(***************************************************************************)
(* C1: on every successful tokenization the number of Indent tokens in the *)
(* returned list equals the number of Dedent tokens in it.                 *)
(***************************************************************************)
C1_IndentBalance ==
    outcome.kind = "ok" =>
        CountType(outcome.tokens, "Indent") = CountType(outcome.tokens, "Dedent")

C1_Witness ==
    /\ outcome.kind = "ok"
    /\ CountType(outcome.tokens, "Indent") = 2
    /\ CountType(outcome.tokens, "Dedent") = 2

(***************************************************************************)
(* C2: when the first token of a line has level (column - 1) below the top *)
(* of the indent stack, the processor pops every level greater than it and *)
(* emits one Dedent per popped level; if the top is then not equal to the  *)
(* level, tokenization fails with an error naming the token's line and no  *)
(* token list is returned; otherwise the token is emitted after the        *)
(* Dedents.                                                                *)
(***************************************************************************)
LevelsAbove(stack, level) == Cardinality({i \in 1..Len(stack) : stack[i] > level})

C2_DedentStep ==
    (/\ Running
     /\ at_line_start
     /\ tok'.type = "Tok"
     /\ tok'.column - 1 < Last(indent_stack))
    =>
    LET level == tok'.column - 1
        k == LevelsAbove(indent_stack, level)
        kept == SubSeq(indent_stack, 1, Len(indent_stack) - k)
    IN  /\ indent_stack' = kept
        /\ \A i \in 1..k : result'[Len(result) + i] = Token("Dedent", tok'.line)
        /\ IF Last(kept) = level
           THEN /\ outcome'.kind = "none"
                /\ result' = (result \o Repeat(Token("Dedent", tok'.line), k))
                                \o <<Token("Tok", tok'.line)>>
           ELSE /\ outcome' = [kind |-> "err", tokens |-> <<>>, line |-> tok'.line]
                /\ CountType(result', "Dedent") = CountType(result, "Dedent") + k

\* C2: every step of the processor that handles a dedenting line-start token
\* pops all levels above the token level with one Dedent each, and then
\* either fails naming the token line or emits the token.
C2_DedentOrFail == [][C2_DedentStep]_vars

\* Scenario E5: levels 0, 4, 8 are open and the token starting line 4 sits
\* at column 3 (level 2): two Dedents are emitted, the stack is back to
\* <<0>>, and the call fails at line 4.
C2_Witness ==
    /\ outcome.kind = "err"
    /\ outcome.line = 4
    /\ outcome.tokens = <<>>
    /\ tok.column = 3
    /\ indent_stack = <<0>>
    /\ CountType(result, "Indent") = 2
    /\ CountType(result, "Dedent") = 2
    /\ \E i \in 1..Len(result) : result[i] = Token("Indent", 2)
    /\ \E i \in 1..Len(result) : result[i] = Token("Indent", 3)

(***************************************************************************)
(* Expected Yul of the claims about the code generator.                    *)
(***************************************************************************)
ContainsLines(code, lines) ==
    \E i \in 1..(Len(code) - Len(lines) + 1) : SubSeq(code, i, i + Len(lines) - 1) = lines

\* Declaration order of the state variables of the generated contracts.
SlotOf == [value |-> 0, owner |-> 1, balances |-> 2, allowances |-> 3]

\* Yul of the keys and values the generated statements use.
YulOf(e) ==
    IF e = MsgSender THEN "caller()"
    ELSE IF e.k = "Ident" THEN e.name
    ELSE e.v

GeneratedOnce ==
    /\ cg.calls = 1
    /\ cg.input \notin CgScenarios
    /\ \A i \in 1..Len(cg.input.items[1].body[Len(StdStateVars) + 1].body) :
          cg.input.items[1].body[Len(StdStateVars) + 1].body[i] \in CgStmts
CgBody == Last(cg.input.items[1].body).body

(***************************************************************************)
(* C3: an assignment `self.X = v` to a state variable X is lowered         *)
(* successfully to `sstore(slot(X), <code of v>)`; for E1 the function set *)
(* emits `sstore(0, new_value)`.                                           *)
(***************************************************************************)
C3_StateAssignLowered ==
    /\ (cg.calls = 1 /\ cg.input = E1Module) =>
         (cg.result.ok /\ ContainsLines(cg.result.code, <<"        sstore(0, new_value)">>))
    /\ \A X \in DOMAIN SlotOf :
         (GeneratedOnce /\ CgBody = <<Assign(SelfAttr(X), None, Ident("amount"))>>) =>
            /\ cg.result.ok
            /\ ContainsLines(cg.result.code,
                   <<"        sstore(" \o ToString(SlotOf[X]) \o ", amount)">>)

(***************************************************************************)
(* C4: `self.X` in rvalue position, X a state variable with slot s, is     *)
(* lowered to `sload(s)`; `return self.value` emits, in order,             *)
(* `let ret := sload(0)`, `mstore(0, ret)`, `return(0, 32)`.               *)
(***************************************************************************)
C4_StateReadLoads ==
    \A X \in DOMAIN SlotOf :
        (GeneratedOnce /\ CgBody = <<Return(Some(SelfAttr(X)))>>) =>
            /\ cg.result.ok
            /\ ContainsLines(cg.result.code,
                   <<"        let ret := sload(" \o ToString(SlotOf[X]) \o ")",
                     "        mstore(0, ret)",
                     "        return(0, 32)">>)

(***************************************************************************)
(* C5: a mapping write `self.X[k] = v` emits, in order, `mstore(0, k)`,    *)
(* `mstore(32, slot(X))`, `sstore(keccak256(0, 64), v)`; a two-level write *)
(* hashes (k1, slot(X)) into first_slot and stores v at the hash of        *)
(* (k2, first_slot); mapping reads use the same address computation ending *)
(* in sload; an index chain deeper than two levels on self.X makes         *)
(* generate fail with UnsupportedFeature.                                  *)
(***************************************************************************)
IsWrite1(st) ==
    /\ st.k = "Assign" /\ st.target.k = "Index"
    /\ st.target.base.k = "Attribute" /\ st.target.base \in {SelfAttr(X) : X \in DOMAIN SlotOf}
    /\ st.value.k = "Ident"

IsWrite2(st) ==
    /\ st.k = "Assign" /\ st.target.k = "Index" /\ st.target.base.k = "Index"
    /\ st.target.base.base \in {SelfAttr(X) : X \in DOMAIN SlotOf}
    /\ st.value.k = "Ident"

IsRead1(st) ==
    /\ st.k = "Return" /\ st.value.some /\ st.value.v.k = "Index"
    /\ st.value.v.base \in {SelfAttr(X) : X \in DOMAIN SlotOf}

IsRead2(st) ==
    /\ st.k = "Return" /\ st.value.some /\ st.value.v.k = "Index"
    /\ st.value.v.base.k = "Index"
    /\ st.value.v.base.base \in {SelfAttr(X) : X \in DOMAIN SlotOf}

IsDeep(st) ==
    \/ st.k = "Assign" /\ st.target = DeepIndex
    \/ st.k = "Return" /\ st.value = Some(DeepIndex)

Write1Lines(ind, k, s, v) ==
    <<ind \o "mstore(0, " \o k \o ")",
      ind \o "mstore(32, " \o s \o ")",
      ind \o "sstore(keccak256(0, 64), " \o v \o ")">>

Read1Lines(ind, k, s) ==
    <<ind \o "mstore(0, " \o k \o ")",
      ind \o "mstore(32, " \o s \o ")",
      ind \o "sload(keccak256(0, 64))">>

C5_Lowered(st) ==
    IF IsWrite1(st)
    THEN ContainsLines(cg.result.code,
             Write1Lines("        ", YulOf(st.target.index),
                         ToString(SlotOf[st.target.base.attr]), YulOf(st.value)))
    ELSE IF IsWrite2(st)
    THEN ContainsLines(cg.result.code,
             <<"        mstore(0, " \o YulOf(st.target.base.index) \o ")",
               "        mstore(32, " \o ToString(SlotOf[st.target.base.base.attr]) \o ")",
               "        let first_slot := keccak256(0, 64)">>
               \o Write1Lines("        ", YulOf(st.target.index), "first_slot", YulOf(st.value)))
    ELSE IF IsRead1(st)
    THEN ContainsLines(cg.result.code,
             <<"        let ret := {">>
               \o Read1Lines("          ", YulOf(st.value.v.index),
                             ToString(SlotOf[st.value.v.base.attr]))
               \o <<"        }">>)
    ELSE IF IsRead2(st)
    THEN ContainsLines(cg.result.code,
             <<"        let ret := {",
               "          mstore(0, " \o YulOf(st.value.v.base.index) \o ")",
               "          mstore(32, " \o ToString(SlotOf[st.value.v.base.base.attr]) \o ")",
               "          let first_slot := keccak256(0, 64)">>
               \o Read1Lines("          ", YulOf(st.value.v.index), "first_slot")
               \o <<"        }">>)
    ELSE TRUE

\* C5: one- and two-level mapping writes and reads emit the mstore/keccak256
\* address computation in order, ending in sstore resp. sload; a deeper
\* index chain on self.X makes generate fail with UnsupportedFeature.
C5_MappingAccess ==
    /\ GeneratedOnce =>
         /\ cg.result.ok => \A i \in 1..Len(CgBody) : C5_Lowered(CgBody[i])
         /\ (Len(CgBody) = 1 /\ (IsWrite1(CgBody[1]) \/ IsWrite2(CgBody[1])
                                   \/ IsRead1(CgBody[1]) \/ IsRead2(CgBody[1])))
              => cg.result.ok
         /\ (\E i \in 1..Len(CgBody) : IsDeep(CgBody[i])) =>
              (~cg.result.ok /\ cg.result.err.kind = "UnsupportedFeature")
         /\ (Len(CgBody) = 1 /\ IsDeep(CgBody[1])) =>
              cg.result.err.what = (IF CgBody[1].k = "Assign" THEN "Indexed assignment" ELSE "Index")
    /\ (cg.calls = 1 /\ cg.input = E3Module) =>
         /\ cg.result.ok
         /\ ContainsLines(cg.result.code, Write1Lines("        ", "k", "0", "v"))

\* A function that writes self.allowances[msg.sender][to] and then returns
\* self.balances[to] was generated.
C5_Witness ==
    /\ GeneratedOnce
    /\ CgBody = <<SetAllowance, Return(Some(ReadBalance))>>
    /\ cg.result.ok
    /\ ContainsLines(cg.result.code,
           <<"        mstore(0, caller())", "        mstore(32, 3)",
             "        let first_slot := keccak256(0, 64)",
             "        mstore(0, to)", "        mstore(32, first_slot)",
             "        sstore(keccak256(0, 64), amount)",
             "        let ret := {", "          mstore(0, to)", "          mstore(32, 2)",
             "          sload(keccak256(0, 64))", "        }",
             "        mstore(0, ret)", "        return(0, 32)">>)

(***************************************************************************)
(* C6: the type Simple("unknown") is compatible with every type in both    *)
(* directions: check_type_compatibility(T, unknown) and                    *)
(* check_type_compatibility(unknown, T) succeed for every type T.          *)
(***************************************************************************)
C6_UnknownBicompatible ==
    (tc.asked /\ (tc.expected = Unknown \/ tc.found = Unknown)) => tc.check = NoErr

(***************************************************************************)
(* C7: for the sized integer types, types_compatible(expected, found) is   *)
(* true if and only if both have the same signedness and                   *)
(* width(found) <= width(expected); a bool is never compatible with an     *)
(* integer type.                                                           *)
(***************************************************************************)
Width(n) ==
    IF n \in {"uint8", "int8"} THEN 8
    ELSE IF n \in {"uint16", "int16"} THEN 16
    ELSE IF n \in {"uint32", "int32"} THEN 32
    ELSE IF n \in {"uint64", "int64"} THEN 64
    ELSE IF n \in {"uint128", "int128"} THEN 128
    ELSE 256

SameSignedness(a, b) == (a \in UintNames /\ b \in UintNames) \/ (a \in IntNames /\ b \in IntNames)

SizedInt(t) == t.k = "Simple" /\ t.name \in UintNames \cup IntNames

\* C7: for sized integer types types_compatible(expected, found) holds iff
\* both have the same signedness and width(found) <= width(expected); a bool
\* is never compatible with an integer type.
C7_SameSignPromotion ==
    /\ (tc.asked /\ SizedInt(tc.expected) /\ SizedInt(tc.found)) =>
          (tc.compatible <=> (/\ SameSignedness(tc.expected.name, tc.found.name)
                              /\ Width(tc.found.name) <= Width(tc.expected.name)))
    /\ (tc.asked /\ tc.compatible /\ tc.found = Simple("bool")) => ~SizedInt(tc.expected)
    /\ (tc.asked /\ tc.compatible /\ tc.expected = Simple("bool")) => ~SizedInt(tc.found)

(***************************************************************************)
(* C8: checking a Return statement.  Original statement: `return <expr>`   *)
(* in a function without declared return type fails with TypeMismatch;     *)
(* `return <expr>` in a function with a declared return type fails with    *)
(* TypeMismatch unless the value type is compatible with it; every Return  *)
(* visited sets has_return to true.                                        *)
(***************************************************************************)
AnalyzedFunction == Last(an.input.items[1].body)

\* The type the language rules give to the values the generated functions
\* return.
ValueType(e) ==
    IF e = IntLiteral("1") THEN Uint256
    ELSE IF e = BoolLiteral(TRUE) THEN BoolType
    ELSE IF e = Ident("small") THEN Simple("uint8")
    ELSE IF e = Ident("to") THEN Address
    ELSE IF e = Ident("amount") THEN Uint256
    ELSE IF e = SelfAttr("value") THEN Uint256
    ELSE Unknown

\* The Return statement the analyzer visits first in the body, if the body
\* starts with one (directly, or as first statement of a leading if/while).
FirstReturn(body) ==
    IF body[1].k = "Return" THEN Some(body[1])
    ELSE IF body[1].k = "If" /\ body[1].then_branch[1].k = "Return"
    THEN Some(body[1].then_branch[1])
    ELSE IF body[1].k = "While" /\ body[1].body[1].k = "Return"
    THEN Some(body[1].body[1])
    ELSE None

FirstCallOnGenerated == an.calls = 1 /\ AnalyzedFunction.name = "f"

\* C8: `return <expr>` without declared return type fails with TypeMismatch;
\* with a declared return type it fails with TypeMismatch unless the value
\* type is compatible; every Return visited sets has_return.
C8_ReturnOriginal ==
    (FirstCallOnGenerated /\ FirstReturn(AnalyzedFunction.body).some) =>
        LET ret == FirstReturn(AnalyzedFunction.body).v
            declared == AnalyzedFunction.return_type
        IN  /\ (ret.value.some /\ ~declared.some) => an.result = TypeMismatch
            /\ (ret.value.some /\ declared.some
                  /\ ~types_compatible(declared.v, ValueType(ret.value.v)))
                 => an.result = TypeMismatch
            /\ an.inst.current_function.some => an.inst.current_function.v.has_return

(***************************************************************************)
(* C10: for the E1 contract SimpleStorage semantic analysis succeeds and   *)
(* the security pass emits no warning at all.                              *)
(***************************************************************************)
C10_E1NoWarnings ==
    (an.input = E1Module /\ an.calls = 1) => (an.result = NoErr /\ an.warnings = <<>>)

\* C10 as amended: for E1 semantic analysis succeeds and the security pass
\* emits exactly one warning, MissingAccessControl for the function `set`.
C10_E1OneWarning ==
    (an.input = E1Module /\ an.calls = 1) =>
        (an.result = NoErr /\ an.warnings = <<Warning("MissingAccessControl", "set")>>)

C10_Witness ==
    /\ an.input = E1Module
    /\ an.calls = 1
    /\ an.result = NoErr
    /\ Len(an.warnings) = 1

(***************************************************************************)
(* C9: MissingAccessControl.  Original statement: the warning is emitted   *)
(* for a function whenever its body assigns, at any nesting depth of       *)
(* if/for/while, to self.X or self.X[k]...[k] for a declared state         *)
(* variable X, it contains no require whose condition references           *)
(* msg.sender, it is neither view nor constructor and its name is not      *)
(* exempted; view, constructor or an exempted name always silence the      *)
(* warning; E4's drain gets exactly one warning and none once the require  *)
(* is prepended.                                                           *)
(***************************************************************************)
RECURSIVE AllStmts(_)
AllStmts(body) ==
    UNION {
        {body[i]} \cup
        (CASE body[i].k = "If" ->
                  AllStmts(body[i].then_branch)
                    \cup UNION {AllStmts(body[i].elif_branches[j][2]) :
                                  j \in 1..Len(body[i].elif_branches)}
                    \cup (IF body[i].else_branch.some
                          THEN AllStmts(body[i].else_branch.v) ELSE {})
           [] body[i].k \in {"For", "While"} -> AllStmts(body[i].body)
           [] OTHER -> {})
        : i \in 1..Len(body)}

RECURSIVE IndexRoot(_)
IndexRoot(e) == IF e.k = "Index" THEN IndexRoot(e.base) ELSE e

RECURSIVE Mentions(_, _)
Mentions(e, x) ==
    \/ e = x
    \/ e.k = "BinOp" /\ (Mentions(e.left, x) \/ Mentions(e.right, x))
    \/ e.k = "UnaryOp" /\ Mentions(e.operand, x)
    \/ e.k = "Call" /\ \E i \in 1..Len(e.args) : Mentions(e.args[i], x)
    \/ e.k = "Index" /\ (Mentions(e.base, x) \/ Mentions(e.index, x))

DeclaredStateVars(m) ==
    {m.items[1].body[i].name :
        i \in {j \in 1..Len(m.items[1].body) : m.items[1].body[j].k = "StateVar"}}

AssignsState(m, body) ==
    \E st \in AllStmts(body) :
        /\ st.k = "Assign"
        /\ \E X \in DeclaredStateVars(m) : IndexRoot(st.target) = SelfAttr(X)

RequiresSender(body) ==
    \E st \in AllStmts(body) : st.k = "Require" /\ Mentions(st.condition, MsgSender)

BranchesOnSender(body) ==
    \E st \in AllStmts(body) :
        /\ st.k = "If"
        /\ \/ Mentions(st.condition, MsgSender)
           \/ \E j \in 1..Len(st.elif_branches) : Mentions(st.elif_branches[j][1], MsgSender)

SecFunction == Last(sec.input.items[1].body)

Silenced(func) ==
    \/ \E i \in 1..Len(func.decorators) : func.decorators[i] \in {"view", "constructor"}
    \/ func.name \in {"transfer", "approve", "balance_of", "allowance"}

MissingAccessControlFor(func) ==
    \E i \in 1..Len(sec.warnings) :
        sec.warnings[i] = Warning("MissingAccessControl", func.name)

E4Expectation ==
    /\ sec.input = E4Module =>
         /\ Len(sec.warnings) = 1
         /\ sec.warnings[1] = Warning("MissingAccessControl", "drain")
    /\ sec.input = E4GuardedModule => sec.warnings = <<>>

\* C9: an unguarded state-assigning function that is not view, constructor
\* or exempted gets MissingAccessControl, where only a require on msg.sender
\* counts as a guard.
C9_AccessControlOriginal ==
    (sec.calls >= 1 /\ sec.input # E1Module) =>
        /\ (/\ AssignsState(sec.input, SecFunction.body)
            /\ ~RequiresSender(SecFunction.body)
            /\ ~Silenced(SecFunction)) => MissingAccessControlFor(SecFunction)
        /\ Silenced(SecFunction) => ~MissingAccessControlFor(SecFunction)
        /\ E4Expectation

\* C9 as amended: the warning is emitted whenever the body assigns to a
\* declared state variable at any depth, contains no require and no
\* if/elif whose condition references msg.sender, and the function is not
\* view, constructor or exempted; view, constructor or an exempted name
\* always silence it; E4's drain gets exactly one warning and none once the
\* require is prepended.
C9_AccessControlAmended ==
    (sec.calls >= 1 /\ sec.input # E1Module) =>
        /\ (/\ AssignsState(sec.input, SecFunction.body)
            /\ ~RequiresSender(SecFunction.body)
            /\ ~BranchesOnSender(SecFunction.body)
            /\ ~Silenced(SecFunction)) => MissingAccessControlFor(SecFunction)
        /\ Silenced(SecFunction) => ~MissingAccessControlFor(SecFunction)
        /\ E4Expectation

\* A state assignment nested in a while/if, no msg.sender check anywhere,
\* no decorator, name not exempted: the warning was emitted.
C9_Witness ==
    /\ sec.calls >= 1
    /\ SecFunction.name = "drain"
    /\ SecFunction.decorators = <<>>
    /\ SecFunction.body =
         <<Pass, While(AmountPositive, <<If(AmountPositive, <<SetAllowance>>, <<>>, None)>>)>>
    /\ sec.warnings = <<Warning("MissingAccessControl", "drain")>>

(***************************************************************************)
(* C11: the security pass emits ReentrancyRisk for every function whose    *)
(* body both assigns to a state variable and performs an external call (a  *)
(* Call whose callee is an Attribute), wherever the call occurs: as a      *)
(* statement, as an assigned value, as a sub-expression, in a require      *)
(* condition, a return value or an emit argument.                          *)
(***************************************************************************)
RECURSIVE ExprHasExternalCall(_)
ExprHasExternalCall(e) ==
    \/ e.k = "Call" /\ e.func.k = "Attribute"
    \/ e.k = "Call" /\ (\/ ExprHasExternalCall(e.func)
                        \/ \E i \in 1..Len(e.args) : ExprHasExternalCall(e.args[i]))
    \/ e.k = "BinOp" /\ (ExprHasExternalCall(e.left) \/ ExprHasExternalCall(e.right))
    \/ e.k = "UnaryOp" /\ ExprHasExternalCall(e.operand)
    \/ e.k = "Attribute" /\ ExprHasExternalCall(e.base)
    \/ e.k = "Index" /\ (ExprHasExternalCall(e.base) \/ ExprHasExternalCall(e.index))
    \/ e.k \in {"List", "Tuple"} /\ \E i \in 1..Len(e.elems) : ExprHasExternalCall(e.elems[i])

\* The expressions a statement holds itself (not those of nested statements).
StmtExprs(st) ==
    CASE st.k = "Assign" -> {st.target, st.value}
      [] st.k = "Return" -> IF st.value.some THEN {st.value.v} ELSE {}
      [] st.k = "Require" -> {st.condition}
      [] st.k = "Emit" -> {st.args[i] : i \in 1..Len(st.args)}
      [] st.k = "Expr" -> {st.expr}
      [] st.k = "If" ->
            {st.condition} \cup {st.elif_branches[j][1] : j \in 1..Len(st.elif_branches)}
      [] st.k = "While" -> {st.condition}
      [] st.k = "For" -> {st.iterable}
      [] OTHER -> {}

PerformsExternalCall(body) ==
    \E st \in AllStmts(body) : \E e \in StmtExprs(st) : ExprHasExternalCall(e)

WarnedFor(kind, func) ==
    \E i \in 1..Len(sec.warnings) : sec.warnings[i] = Warning(kind, func.name)

\* C11: a function that assigns state and performs an external call anywhere
\* in its body gets a ReentrancyRisk warning.
C11_ReentrancyAnywhere ==
    sec.calls >= 1 =>
        ((/\ AssignsState(sec.input, SecFunction.body)
          /\ PerformsExternalCall(SecFunction.body))
            => WarnedFor("ReentrancyRisk", SecFunction))

(***************************************************************************)
(* C12: StateChangeAfterExternalCall is emitted for a function whenever,   *)
(* in one of its statement lists (the body or a nested if/for/while body), *)
(* a statement containing an external call is followed later by a          *)
(* statement that mutates state; a function whose state mutations all      *)
(* precede all its external calls gets no such warning; and at most one    *)
(* such warning is emitted per function.                                   *)
(***************************************************************************)
\* The statement lists of a body: the body and every nested body.
RECURSIVE StmtLists(_)
StmtLists(body) ==
    {body} \cup UNION {
        (CASE body[i].k = "If" ->
                  StmtLists(body[i].then_branch)
                    \cup UNION {StmtLists(body[i].elif_branches[j][2]) :
                                  j \in 1..Len(body[i].elif_branches)}
                    \cup (IF body[i].else_branch.some
                          THEN StmtLists(body[i].else_branch.v) ELSE {})
           [] body[i].k \in {"For", "While"} -> StmtLists(body[i].body)
           [] OTHER -> {})
        : i \in 1..Len(body)}

CallThenMutation(m, body) ==
    \E L \in StmtLists(body) : \E i, j \in 1..Len(L) :
        /\ i < j
        /\ PerformsExternalCall(<<L[i]>>)
        /\ AssignsState(m, <<L[j]>>)

\* The statements of a body in source order, nested ones after their owner.
RECURSIVE InOrder(_)
RECURSIVE InOrderElifs(_)
InOrderElifs(elifs) ==
    IF elifs = <<>> THEN <<>>
    ELSE InOrder(Head(elifs)[2]) \o InOrderElifs(Tail(elifs))

InOrder(body) ==
    IF body = <<>> THEN <<>>
    ELSE <<Head(body)>>
           \o (CASE Head(body).k = "If" ->
                      InOrder(Head(body).then_branch)
                        \o InOrderElifs(Head(body).elif_branches)
                        \o (IF Head(body).else_branch.some
                            THEN InOrder(Head(body).else_branch.v) ELSE <<>>)
                [] Head(body).k \in {"For", "While"} -> InOrder(Head(body).body)
                [] OTHER -> <<>>)
           \o InOrder(Tail(body))

IsStateAssign(m, st) ==
    st.k = "Assign" /\ \E X \in DeclaredStateVars(m) : IndexRoot(st.target) = SelfAttr(X)

MutationsPrecedeCalls(m, body) ==
    \A i, j \in 1..Len(InOrder(body)) :
        (/\ IsStateAssign(m, InOrder(body)[i])
         /\ \E e \in StmtExprs(InOrder(body)[j]) : ExprHasExternalCall(e)) => i < j

WarningCount(kind, func) ==
    Cardinality({i \in 1..Len(sec.warnings) : sec.warnings[i] = Warning(kind, func.name)})

\* C12: a call followed by a mutation is flagged, mutations before calls are
\* not, and the warning appears at most once.
C12_MutationAfterCall ==
    sec.calls >= 1 =>
        /\ CallThenMutation(sec.input, SecFunction.body)
              => WarnedFor("StateChangeAfterExternalCall", SecFunction)
        /\ MutationsPrecedeCalls(sec.input, SecFunction.body)
              => ~WarnedFor("StateChangeAfterExternalCall", SecFunction)
        /\ WarningCount("StateChangeAfterExternalCall", SecFunction) <= 1

\* The detector is exact for the calls it sees: with "contains an external
\* call" read as statement_has_external_call, the warning is emitted exactly
\* when a call is followed by a mutation in one statement list.
CeiExactForSeenCalls ==
    sec.calls >= 1 =>
        /\ (\E L \in StmtLists(SecFunction.body) : \E i, j \in 1..Len(L) :
               i < j /\ statement_has_external_call(L[i])
                     /\ AssignsState(sec.input, <<L[j]>>))
              <=> WarnedFor("StateChangeAfterExternalCall", SecFunction)
        /\ MutationsPrecedeCalls(sec.input, SecFunction.body)
              => ~WarnedFor("StateChangeAfterExternalCall", SecFunction)
        /\ WarningCount("StateChangeAfterExternalCall", SecFunction) <= 1

(***************************************************************************)
(* C13: a second generate call on the same EvmCodegen instance and the     *)
(* same module returns the same result as the first, with the same storage *)
(* slots and event signatures.                                             *)
(***************************************************************************)
GenerateAgain ==
    /\ cg.calls >= 1
    /\ cg'.calls = cg.calls + 1

\* C13: every generate call after the first leaves the result, the storage
\* layout and the event signatures as the first call left them.
C13_RepeatableGenerate ==
    [][GenerateAgain =>
          /\ cg'.result = cg.result
          /\ cg'.g.storage_layout = cg.g.storage_layout
          /\ cg'.g.event_signatures = cg.g.event_signatures]_vars

(***************************************************************************)
(* C14: a second analyze call on the same SemanticAnalyzer instance and    *)
(* the same module gives the same result and the same ordered warning      *)
(* list as the first: no definition of one invocation is visible to the    *)
(* next.                                                                   *)
(***************************************************************************)
AnalyzeAgain ==
    /\ an.calls >= 1
    /\ an'.calls = an.calls + 1

\* C14: every analyze call after the first returns what the first returned
\* and reports the same warnings in the same order.
C14_RepeatableAnalyze ==
    [][AnalyzeAgain =>
          /\ an'.result = an.result
          /\ an'.warnings = an.warnings]_vars

(***************************************************************************)
(* C15: every arithmetic operation in the Yul emitted for function and     *)
(* constructor bodies goes through a checked helper: the operators + - * / *)
(* % lower to checked_add, checked_sub, checked_mul, checked_div and       *)
(* checked_mod, the calls safe_add, safe_sub, safe_mul, safe_div are       *)
(* rewritten to the same helpers, and outside the helper definitions no    *)
(* lowering emits a bare add, sub, mul, div or mod.                        *)
(***************************************************************************)
IdentChars ==
    {
     "a", "b", "c", "d", "e", "f", "g", "h", "i", "j", "k", "l", "m",
     "n", "o", "p", "q", "r", "s", "t", "u", "v", "w", "x", "y", "z",
     "A", "B", "C", "D", "E", "F", "G", "H", "I", "J", "K", "L", "M",
     "N", "O", "P", "Q", "R", "S", "T", "U", "V", "W", "X", "Y", "Z",
     "0", "1", "2", "3", "4", "5", "6", "7", "8", "9", "_"}

BareOps == {"add(", "sub(", "mul(", "div(", "mod("}

\* The positions of a line where add(, sub(, mul(, div( or mod( starts and
\* is not the tail of a longer name such as checked_add(.
BareArithmeticAt(text) ==
    {p \in 1..(Len(text) - 3) :
        /\ SubSeq(text, p, p + 3) \in BareOps
        /\ (p = 1 \/ SubSeq(text, p - 1, p - 1) \notin IdentChars)}

LineIndex(code, text) == CHOOSE i \in 1..Len(code) : code[i] = text

\* The lines of the helper definitions and of the dispatcher.
HelperLines(code) ==
    LineIndex(code, "      // CHECKED ARITHMETIC HELPERS")
        .. LineIndex(code, "      function selector() -> s {") + 1

\* The lines emitted for the constructor and the function bodies.
BodyLines(code) == (1..Len(code)) \ HelperLines(code)

ArithHelper ==
    [Add |-> "checked_add", Sub |-> "checked_sub", Mul |-> "checked_mul",
     Div |-> "checked_div", Mod |-> "checked_mod",
     safe_add |-> "checked_add", safe_sub |-> "checked_sub",
     safe_mul |-> "checked_mul", safe_div |-> "checked_div"]

GeneratedArith ==
    /\ cg.calls = 1
    /\ cg.input \notin CgScenarios
    /\ \A i \in 1..Len(cg.input.items[1].body[Len(StdStateVars) + 1].body) :
          cg.input.items[1].body[Len(StdStateVars) + 1].body[i] \in ArithStmts

\* Operators and safe_* calls on two identifiers lower to the helper call.
ArithLowered ==
    GeneratedArith =>
        /\ cg.result.ok
        /\ \A i \in 1..Len(CgBody) :
              /\ (CgBody[i].k = "Return" /\ CgBody[i].value.v.k = "BinOp") =>
                    ContainsLines(cg.result.code,
                        <<"        let ret := " \o ArithHelper[CgBody[i].value.v.op]
                              \o "(amount, small)">>)
              /\ (/\ CgBody[i].k = "Assign" /\ CgBody[i].value.k = "Call"
                  /\ CgBody[i].value.func.name \in DOMAIN ArithHelper) =>
                    ContainsLines(cg.result.code,
                        <<"        let x := " \o ArithHelper[CgBody[i].value.func.name]
                              \o "(amount, small)">>)

\* C15: arithmetic lowers to the helpers and no body line holds a bare
\* arithmetic builtin.
C15_NoBareArithmetic ==
    /\ ArithLowered
    /\ (cg.calls = 1 /\ cg.result.ok) =>
          \A i \in BodyLines(cg.result.code) : BareArithmeticAt(cg.result.code[i]) = {}

\* The increment `{ v := add(v, ` of a lowered for loop at position p.
IsLoopIncrement(text, p, v) ==
    /\ p > Len("{ " \o v \o " := ")
    /\ SubSeq(text, p - Len("{ " \o v \o " := "), p - 1) = "{ " \o v \o " := "
    /\ p + 3 + Len(v) + 1 <= Len(text)
    /\ SubSeq(text, p, p + 3 + Len(v) + 1) = "add(" \o v \o ","

LoopVariables(body) == {st.variable : st \in {x \in AllStmts(body) : x.k = "For"}}

RECURSIVE CalledNames(_)
CalledNames(e) ==
    CASE e.k = "Call" ->
            (IF e.func.k = "Ident" THEN {e.func.name} ELSE {})
              \cup UNION {CalledNames(e.args[i]) : i \in 1..Len(e.args)}
      [] e.k = "BinOp" -> CalledNames(e.left) \cup CalledNames(e.right)
      [] e.k = "UnaryOp" -> CalledNames(e.operand)
      [] e.k = "Index" -> CalledNames(e.base) \cup CalledNames(e.index)
      [] OTHER -> {}

\* The identifiers the source itself calls.
SourceCalls(body) ==
    UNION {UNION {CalledNames(e) : e \in StmtExprs(st)} : st \in AllStmts(body)}

AllFunctionBodies(module) ==
    UNION {{m.body : m \in {x \in SeqToSet(item.body) : x.k = "Function"}} :
              item \in {i \in SeqToSet(module.items) : i.k = "Contract"}}

\* C15 as amended: arithmetic lowers to the helpers, and a bare arithmetic
\* builtin in a body line is either the increment of a lowered for loop or
\* a call the source itself makes to a function of that name.
C15_CheckedArithmetic ==
    /\ ArithLowered
    /\ (cg.calls = 1 /\ cg.result.ok) =>
          \A i \in BodyLines(cg.result.code) :
              \A p \in BareArithmeticAt(cg.result.code[i]) :
                  \/ \E b \in AllFunctionBodies(cg.input) : \E v \in LoopVariables(b) :
                         IsLoopIncrement(cg.result.code[i], p, v)
                  \/ \E b \in AllFunctionBodies(cg.input) :
                         SubSeq(cg.result.code[i], p, p + 2) \in SourceCalls(b)

\* Every operator and a loop in one body: the helpers are called, and the
\* only bare add is the loop increment.
C15_Witness ==
    /\ cg.calls = 1 /\ cg.result.ok
    /\ CgBody = <<For("i", Call(Ident("range"), <<BinOp(Ident("amount"), "Add", IntLiteral("1"))>>),
                      <<SetBalance>>),
                  Return(Some(BinOp(Ident("amount"), "Mul", Ident("small"))))>>
    /\ ContainsLines(cg.result.code,
           <<"        for { let i := 0 } lt(i, checked_add(amount, 1)) { i := add(i, 1) }",
             "        {">>)
    /\ ContainsLines(cg.result.code, <<"        let ret := checked_mul(amount, small)">>)

(***************************************************************************)
(* C16: on w-bit unsigned words the emitted helpers trap exactly on        *)
(* overflow, underflow and division by zero: checked_add reverts iff       *)
(* a + b >= 2^w and otherwise returns a + b; checked_sub reverts iff a < b *)
(* and otherwise returns a - b; checked_mul reverts iff a * b >= 2^w and   *)
(* otherwise returns a * b; checked_div and checked_mod revert iff b = 0   *)
(* and otherwise return the quotient and the remainder.                    *)
(***************************************************************************)
\* The exact (unbounded) result of the operation a helper guards.
ExactResult(name, a, b) ==
    CASE name = "checked_add" -> a + b
      [] name = "checked_sub" -> a - b
      [] name = "checked_mul" -> a * b
      [] name = "checked_div" -> a \div b
      [] name = "checked_mod" -> a % b

MustTrap(name, a, b) ==
    CASE name = "checked_add" -> a + b >= Pow2(WordBits)
      [] name = "checked_sub" -> a < b
      [] name = "checked_mul" -> a * b >= Pow2(WordBits)
      [] name \in {"checked_div", "checked_mod"} -> b = 0

\* C16: a helper call reverts exactly when the operation must trap and
\* otherwise returns the exact result.
C16_HelpersTrapExactly ==
    evm.done =>
        /\ evm.out.reverted <=> MustTrap(evm.helper, evm.a, evm.b)
        /\ ~evm.out.reverted => evm.out.result = ExactResult(evm.helper, evm.a, evm.b)

\* A multiplication that overflows and was reverted.
C16_Witness ==
    /\ evm.done
    /\ evm.helper = "checked_mul"
    /\ evm.a = Pow2(WordBits) - 1 /\ evm.b = 2
    /\ evm.out.reverted

(***************************************************************************)
(* C17: after generate on a contract whose state variables have distinct   *)
(* names, the slots are non-decreasing in declaration order, the first     *)
(* state variable has slot 0, the slots are assigned without gaps, and     *)
(* functions consume no slot.                                              *)
(***************************************************************************)
LaidOutMembers == cg.input.items[1].body

StateVarPositions == {i \in 1..Len(LaidOutMembers) : LaidOutMembers[i].k = "StateVar"}

\* The number of state variables declared before member i.
StateVarsBefore(i) == Cardinality({j \in StateVarPositions : j < i})

CodegenSlot(i) == cg.g.storage_layout[LaidOutMembers[i].name]

DenseInDeclarationOrder ==
    /\ \A i, j \in StateVarPositions : i < j => CodegenSlot(i) <= CodegenSlot(j)
    /\ \A i \in StateVarPositions : CodegenSlot(i) = StateVarsBefore(i)

\* C17: after every generate call the k-th state variable of the contract
\* has slot k - 1.
C17_DenseFromZero == cg.calls >= 1 => DenseInDeclarationOrder

\* On a fresh instance the slots are dense from zero.
DenseOnFreshInstance == cg.calls = 1 => DenseInDeclarationOrder

(***************************************************************************)
(* C18: each state variable occupies size(type) slots (1 for Simple,       *)
(* Mapping, List and Optional, the sum of the components for Tuple,        *)
(* n * size(T) for FixedArray(T, n)), so its slot is the sum of the sizes  *)
(* of the state variables declared before it, in the layout of             *)
(* EvmCodegen.generate and in StorageLayout.allocate, and the two agree.   *)
(***************************************************************************)
RECURSIVE SlotsOfType(_)
RECURSIVE SlotsOfTypes(_)
SlotsOfTypes(types) ==
    IF types = <<>> THEN 0 ELSE SlotsOfType(Head(types)) + SlotsOfTypes(Tail(types))

SlotsOfType(typ) ==
    CASE typ.k \in {"Simple", "Mapping", "List", "Optional"} -> 1
      [] typ.k = "Tuple" -> SlotsOfTypes(typ.elems)
      [] typ.k = "FixedArray" -> typ.size * SlotsOfType(typ.elem)

RECURSIVE SizesBefore(_)
SizesBefore(i) ==
    IF i = 1 THEN 0
    ELSE SizesBefore(i - 1)
           + (IF LaidOutMembers[i - 1].k = "StateVar"
              THEN SlotsOfType(LaidOutMembers[i - 1].type_annotation) ELSE 0)

\* C18: after the first generate and the first allocate every state
\* variable sits at the sum of the sizes before it in both layouts.
C18_SizedSlots ==
    (cg.calls = 1 /\ sl.calls = 1) =>
        \A i \in StateVarPositions :
            /\ CodegenSlot(i) = SizesBefore(i)
            /\ sl.layout.slots[LaidOutMembers[i].name].slot = SizesBefore(i)
            /\ sl.layout.slots[LaidOutMembers[i].name].size
                  = SlotsOfType(LaidOutMembers[i].type_annotation)
            /\ CodegenSlot(i) = sl.layout.slots[LaidOutMembers[i].name].slot

(***************************************************************************)
(* C19: the runtime code consists, in this order, of the checked-math      *)
(* helpers, the dispatcher `switch selector()` with exactly one case per   *)
(* function other than __init__ in declaration order, each calling that    *)
(* function, followed by the default arm `revert(0, 0)`, and the function  *)
(* definitions in declaration order; __init__ is neither in the dispatcher *)
(* nor among the runtime functions, its body being lowered into the        *)
(* deployment code.                                                        *)
(***************************************************************************)
StartsWith(text, prefix) ==
    Len(text) >= Len(prefix) /\ SubSeq(text, 1, Len(prefix)) = prefix

EndsWith(text, suffix) ==
    Len(text) >= Len(suffix)
      /\ SubSeq(text, Len(text) - Len(suffix) + 1, Len(text)) = suffix

\* The functions of the contract in declaration order.
DeclaredFunctions(module) ==
    SelectSeq(SelectSeq(module.items, LAMBDA it : it.k = "Contract")[1].body,
              LAMBDA m : m.k = "Function")

NonConstructors(module) == SelectSeq(DeclaredFunctions(module), LAMBDA f : f.name # "__init__")

HasConstructor(module) == \E i \in 1..Len(DeclaredFunctions(module)) :
                              DeclaredFunctions(module)[i].name = "__init__"

\* The lines `function <name>() {` of a text, in order.
FunctionHeaders(code) ==
    SelectSeq(code, LAMBDA l : StartsWith(l, "      function ") /\ EndsWith(l, "() {"))

\* The lines `case ... { ... }` of a text, in order.
CaseLines(code) == SelectSeq(code, LAMBDA l : StartsWith(l, "      case "))

RuntimeOrder(code, funcs) ==
    /\ LineIndex(code, "    code {") < LineIndex(code, "      // CHECKED ARITHMETIC HELPERS")
    /\ LineIndex(code, "      function checked_mod(a, b) -> result {")
          < LineIndex(code, "      switch selector()")
    /\ Len(CaseLines(code)) = Len(funcs)
    /\ \A k \in 1..Len(funcs) :
          /\ code[LineIndex(code, "      switch selector()") + k] = CaseLines(code)[k]
          /\ StartsWith(CaseLines(code)[k], "      case 0x")
          /\ EndsWith(CaseLines(code)[k], " { " \o funcs[k].name \o "() }")
    /\ code[LineIndex(code, "      switch selector()") + Len(funcs) + 1]
          = "      default { revert(0, 0) }"
    /\ FunctionHeaders(code) = [k \in 1..Len(funcs) |-> "      function " \o funcs[k].name \o "() {"]
    /\ \A i \in 1..Len(code) :
          (StartsWith(code[i], "      function ") /\ EndsWith(code[i], "() {"))
             => i > LineIndex(code, "      function selector() -> s {")

ConstructorInDeployment(code, module) ==
    /\ HasConstructor(module) <=> (\E i \in 1..Len(code) : code[i] = "    // Execute constructor")
    /\ HasConstructor(module) =>
          LineIndex(code, "    // Execute constructor") < LineIndex(code, "  object \"runtime\" {")
    /\ (HasConstructor(module) /\ module \in DispatchModules) =>
          ContainsLines(code, <<"    // Constructor (deployment) code",
                                "    // Execute constructor",
                                "    let supply := calldataload(0)",
                                "",
                                "    let x := supply",
                                "",
                                "    // Copy runtime code to memory and return it">>)

\* C19: every successful generate call emits the runtime code in that order
\* and lowers __init__ into the deployment code only.
C19_RuntimeLayout ==
    (cg.calls >= 1 /\ cg.result.ok) =>
        /\ RuntimeOrder(cg.result.code, NonConstructors(cg.input))
        /\ ConstructorInDeployment(cg.result.code, cg.input)

\* A contract declaring put, __init__ and get in this order.
C19_Witness ==
    /\ cg.calls >= 1 /\ cg.result.ok
    /\ cg.input \in DispatchModules
    /\ Len(DeclaredFunctions(cg.input)) = 3
    /\ DeclaredFunctions(cg.input)[1].name = "put"
    /\ DeclaredFunctions(cg.input)[2].name = "__init__"
    /\ DeclaredFunctions(cg.input)[3].name = "get"
    /\ ContainsLines(cg.result.code,
           <<"      switch selector()",
             "      case 0x98d80eb7 { put() }",
             "      case 0xc06cf183 { get() }",
             "      default { revert(0, 0) }">>)
    /\ FunctionHeaders(cg.result.code) = <<"      function put() {", "      function get() {">>

(***************************************************************************)
(* C20: a for statement is lowered only over range(n), range(a, b) and     *)
(* range(a, b, s); the loop starts at the start (0 when omitted), is       *)
(* guarded by lt(var, end) and steps by the step (1 when omitted), the     *)
(* body lowered inside.  Any other iterable is accepted by the analysis    *)
(* and makes generate fail with UnsupportedFeature, as does range with no  *)
(* or more than three arguments.                                           *)
(***************************************************************************)
\* The body of the function under analysis and generation.
LoopStatements == cg.input.items[1].body[Len(StdStateVars) + 1].body

IsRangeCall(e) == e.k = "Call" /\ e.func = Ident("range")

Lowerable(st) == IsRangeCall(st.iterable) /\ Len(st.iterable.args) \in {1, 2, 3}

\* The text of an argument of range: a name or a literal.
ArgText(e) == IF e.k = "Ident" THEN e.name ELSE e.v

LoopStart(args) == IF Len(args) = 1 THEN "0" ELSE ArgText(args[1])
LoopEnd(args) == IF Len(args) = 1 THEN ArgText(args[1]) ELSE ArgText(args[2])
LoopStep(args) == IF Len(args) = 3 THEN ArgText(args[3]) ELSE "1"

\* The text of the loop bodies of ForStmts, one level inside the loop.
LoopBodyText(st) ==
    IF st.body = <<Pass>> THEN <<"         // pass">>
    ELSE <<"         let x := " \o st.variable>>

ExpectedLoop(st) ==
    <<"        for { let " \o st.variable \o " := " \o LoopStart(st.iterable.args)
        \o " } lt(" \o st.variable \o ", " \o LoopEnd(st.iterable.args)
        \o ") { " \o st.variable \o " := add(" \o st.variable \o ", "
        \o LoopStep(st.iterable.args) \o ") }",
      "        {">> \o LoopBodyText(st) \o <<"        }">>

RECURSIVE ExpectedLoops(_)
ExpectedLoops(stmts) ==
    IF stmts = <<>> THEN <<>> ELSE ExpectedLoop(Head(stmts)) \o ExpectedLoops(Tail(stmts))

AllLowerable(stmts) == \A i \in 1..Len(stmts) : Lowerable(stmts[i])

\* C20: generate succeeds exactly when every for statement is over range
\* with one to three arguments, and then emits each loop as stated;
\* otherwise it fails with UnsupportedFeature, while the first analyze call
\* of a new analyzer accepts the module.
C20_ForOnlyOverRange ==
    /\ cg.calls >= 1 =>
          /\ cg.result.ok <=> AllLowerable(LoopStatements)
          /\ cg.result.ok =>
                ContainsLines(cg.result.code,
                              <<"        let small := calldataload(68)", "">>
                                \o ExpectedLoops(LoopStatements) \o <<"      }">>)
          /\ ~cg.result.ok => cg.result.err.kind = "UnsupportedFeature"
    /\ an.calls = 1 => an.result = NoErr

\* A loop over range(1, amount, 2) is lowered and followed by a loop over a
\* variable: the analysis has accepted the module and generate has failed.
C20_Witness ==
    /\ an.calls = 1 /\ an.result = NoErr
    /\ cg.calls = 1 /\ ~cg.result.ok
    /\ cg.result.err = [kind |-> "UnsupportedFeature",
                        what |-> "For loop iterable must be range() call"]
    /\ Len(LoopStatements) = 2
    /\ Lowerable(LoopStatements[1])
    /\ LoopStatements[2].iterable = Ident("amount")

(***************************************************************************)
(* C21: on success the returned token list contains exactly one Eof token, *)
(* the last one, immediately preceded by one Dedent for each indentation   *)
(* level still open above 0 at the end of the input, so that the indent    *)
(* stack is <<0>> when Eof is emitted.                                     *)
(***************************************************************************)
TypesOf(tokens) == [i \in 1..Len(tokens) |-> tokens[i].type]

C21_EofStep ==
    (Running /\ outcome'.kind = "ok") =>
        LET open == Len(indent_stack) - 1
            n == Len(outcome'.tokens)
        IN  /\ n = Len(result) + open + 1
            /\ SubSeq(outcome'.tokens, 1, Len(result)) = result
            /\ CountType(result, "Eof") = 0
            /\ \A i \in (Len(result) + 1)..(n - 1) : outcome'.tokens[i].type = "Dedent"
            /\ outcome'.tokens[n].type = "Eof"
            /\ CountType(outcome'.tokens, "Eof") = 1
            /\ indent_stack' = <<0>>

\* C21: the step that returns Ok appends to the tokens emitted so far one
\* Dedent per level open above 0 and then the only Eof, and leaves the
\* indent stack at <<0>>.
C21_EofClosesLevels == [][C21_EofStep]_vars

\* Two levels were open at the end of the input: the list ends with
\* Tok, Dedent, Dedent, Eof.
C21_Witness ==
    /\ outcome.kind = "ok"
    /\ indent_stack = <<0>>
    /\ Len(outcome.tokens) >= 4
    /\ SubSeq(TypesOf(outcome.tokens), Len(outcome.tokens) - 3, Len(outcome.tokens))
         = <<"Tok", "Dedent", "Dedent", "Eof">>

(***************************************************************************)
(* C27: in every reachable state of the indentation processor the indent   *)
(* stack is non-empty, its bottom element is 0 and its elements increase   *)
(* strictly from bottom to top; the number of Indent tokens emitted so far *)
(* minus the number of Dedent tokens emitted so far equals the stack depth *)
(* minus 1.                                                                *)
(***************************************************************************)
StrictlyIncreasing(stack) == \A i \in 1..(Len(stack) - 1) : stack[i] < stack[i + 1]

\* C27: the stack is never empty, starts at 0 and is strictly increasing,
\* and Indents minus Dedents emitted so far is its depth minus 1.
C27_StackShape ==
    /\ Len(indent_stack) >= 1
    /\ indent_stack[1] = 0
    /\ StrictlyIncreasing(indent_stack)
    /\ CountType(result, "Indent") - CountType(result, "Dedent") = Len(indent_stack) - 1

\* Three levels are open while the processor is running, after a dedent.
C27_Witness ==
    /\ Running
    /\ Len(indent_stack) = 3
    /\ CountType(result, "Dedent") >= 1
    /\ CountType(result, "Indent") = CountType(result, "Dedent") + 2

(***************************************************************************)
(* C23: during raw tokenization a nesting counter is incremented on each   *)
(* of ( [ { and decremented on each of ) ] } but never goes below zero;    *)
(* every Newline read while the counter is greater than 0 is dropped and   *)
(* every Newline read while it is 0 is emitted, so a line break inside     *)
(* brackets never produces a Newline, Indent or Dedent token.              *)
(***************************************************************************)
\* The counter after a lexeme of type ty, as the claim states it.
Bump(depth, ty) ==
    IF ty \in {"LParen", "LBracket", "LBrace"} THEN depth + 1
    ELSE IF ty \in {"RParen", "RBracket", "RBrace"} /\ depth > 0 THEN depth - 1
    ELSE depth

\* The counter after the first n lexemes of a source.
RECURSIVE Depth(_, _)
Depth(source, n) == IF n = 0 THEN 0 ELSE Bump(Depth(source, n - 1), source[n].type)

\* The positions of the line breaks read inside brackets.
BreaksInside(source) ==
    {p \in 1..Len(source) : source[p].type = "Newline" /\ Depth(source, p - 1) > 0}

\* A step that reads a lexeme moves the counter as stated and drops or
\* emits a Newline according to the counter before it.
C23_ReadStep ==
    (~raw.done /\ ~raw'.done /\ Len(raw'.lexer.source) = Len(raw.lexer.source) + 1) =>
        /\ raw'.lexer.nesting_level = Depth(raw'.lexer.source, Len(raw'.lexer.source))
        /\ raw'.lexer.nesting_level >= 0
        /\ Last(raw'.lexer.source).type = "Newline" =>
              IF raw.lexer.nesting_level > 0
              THEN raw'.lexer.tokens = raw.lexer.tokens
              ELSE /\ Len(raw'.lexer.tokens) = Len(raw.lexer.tokens) + 1
                   /\ Last(raw'.lexer.tokens).type = "Newline"
                   /\ Last(raw'.lexer.tokens).pos = Len(raw'.lexer.source)
                   /\ SubSeq(raw'.lexer.tokens, 1, Len(raw.lexer.tokens)) = raw.lexer.tokens

\* The tokens tokenize returns hold no Newline made from a line break
\* inside brackets and no Indent or Dedent made for the lexeme after it.
C23_EndStep ==
    (~raw.done /\ raw'.done /\ raw'.out.ok) =>
        \A p \in BreaksInside(raw.lexer.source) :
            \A i \in 1..Len(raw'.out.tokens) :
               /\ ~(raw'.out.tokens[i].type = "Newline" /\ raw'.out.tokens[i].pos = p)
               /\ ~(raw'.out.tokens[i].type \in {"Indent", "Dedent"}
                      /\ raw'.out.tokens[i].pos = p + 1)

\* C23: the nesting counter follows the brackets without going below zero,
\* a Newline is dropped exactly when it is read with the counter above 0,
\* and no Newline, Indent or Dedent comes from a line break inside brackets.
C23_ImplicitContinuation == [][C23_ReadStep /\ C23_EndStep]_vars

\* `]` at column 1, `(`, a line break, an identifier at column 5: the
\* counter stays at 0 on the `]`, the break is dropped and no Indent is
\* made for the identifier, which stands on line 2.
C23_Witness ==
    /\ raw.done /\ raw.out.ok
    /\ Len(raw.lexer.source) = 4
    /\ TypesOf(raw.lexer.source) = <<"RBracket", "LParen", "Newline", "Ident">>
    /\ raw.lexer.source[4].column = 5
    /\ raw.lexer.nesting_level = 1
    /\ TypesOf(raw.out.tokens) = <<"RBracket", "LParen", "Ident", "Eof">>
    /\ raw.out.tokens[3].line = 2 /\ raw.out.tokens[4].line = 1

(***************************************************************************)
(* Specification of the symbol table used on its own: enter_scope,         *)
(* exit_scope, define_variable, define_function, define_event and          *)
(* define_contract called in any order on one SymbolTable (symbol_table.rs *)
(* 49-149).  symtab.before is the table the last call was made on and      *)
(* symtab.result the Result it returned.                                   *)
(***************************************************************************)
MaxScopes == 2      \* scopes open at once

SymNames == {"balance", "owner"}
SymTypes == {Simple("uint256"), Simple("address")}
EventNames == {"Transfer"}
ContractNames == {"Token"}

TableCall(before, after, op, name, res) ==
    [table |-> [after EXCEPT !.err = NoErr], before |-> before,
     op |-> op, name |-> name, result |-> res]

InitSymtab ==
    /\ InitLex
    /\ tc = 0 /\ an = 0 /\ sec = 0 /\ cg = 0 /\ evm = 0 /\ sl = 0
    /\ raw = 0 /\ ps = 0 /\ vm = 0
    /\ symtab = TableCall(NewAnalyzer, NewAnalyzer, "new", "", NoErr)

EnterScope ==
    /\ Len(symtab.table.scopes) < MaxScopes
    /\ symtab' = TableCall(symtab.table, enter_scope(symtab.table), "enter_scope", "", NoErr)
    /\ UNCHANGED <<lexVars, tc, an, sec, cg, evm, sl, raw, ps, vm>>

ExitScope ==
    /\ symtab' = TableCall(symtab.table, exit_scope(symtab.table), "exit_scope", "", NoErr)
    /\ UNCHANGED <<lexVars, tc, an, sec, cg, evm, sl, raw, ps, vm>>

DefineVariable ==
    /\ \E name \in SymNames, ty \in SymTypes :
          symtab' = TableCall(symtab.table, define_variable(symtab.table, name, ty),
                              "define_variable", name,
                              define_variable(symtab.table, name, ty).err)
    /\ UNCHANGED <<lexVars, tc, an, sec, cg, evm, sl, raw, ps, vm>>

DefineFunction ==
    /\ \E name \in SymNames :
          symtab' = TableCall(symtab.table, define_function(symtab.table, name),
                              "define_function", name,
                              define_function(symtab.table, name).err)
    /\ UNCHANGED <<lexVars, tc, an, sec, cg, evm, sl, raw, ps, vm>>

DefineEvent ==
    /\ \E name \in EventNames :
          symtab' = TableCall(symtab.table, define_event(symtab.table, name),
                              "define_event", name,
                              define_event(symtab.table, name).err)
    /\ UNCHANGED <<lexVars, tc, an, sec, cg, evm, sl, raw, ps, vm>>

DefineContract ==
    /\ \E name \in ContractNames :
          symtab' = TableCall(symtab.table, define_contract(symtab.table, name),
                              "define_contract", name,
                              define_contract(symtab.table, name).err)
    /\ UNCHANGED <<lexVars, tc, an, sec, cg, evm, sl, raw, ps, vm>>

NextSymtab ==
    EnterScope \/ ExitScope \/ DefineVariable \/ DefineFunction
      \/ DefineEvent \/ DefineContract

SpecSymtab == InitSymtab /\ [][NextSymtab]_vars

(***************************************************************************)
(* C22: duplicate definitions, shadowing and lookup through the scopes.    *)
(***************************************************************************)
DefinedIn(scope, name) == name \in DOMAIN scope

\* The scopes of a table, innermost last, that bind the name at all and
\* those that bind it as a variable.
ScopesDefining(scopes, name) == {i \in 1..Len(scopes) : DefinedIn(scopes[i], name)}
ScopesWithVariable(scopes, name) ==
    {i \in ScopesDefining(scopes, name) : scopes[i][name].kind = "Variable"}

Innermost(S) == CHOOSE i \in S : \A j \in S : j <= i

\* What a variable lookup finds in one binding.
VariableOf(sym) == IF sym.kind = "Variable" THEN Some(sym.ty) ELSE None

\* A define call on a scope that already binds the name returns
\* DuplicateDefinition and changes nothing; otherwise it returns Ok and
\* binds the name in the innermost scope only, whatever outer scopes hold.
C22_DefineRule ==
    symtab.op \in {"define_variable", "define_function"} =>
        LET old == symtab.before.scopes
            new == symtab.table.scopes
            n == Len(old)
        IN  IF DefinedIn(old[n], symtab.name)
            THEN symtab.result = DuplicateDefinition /\ new = old
            ELSE /\ symtab.result = NoErr
                 /\ Len(new) = n
                 /\ SubSeq(new, 1, n - 1) = SubSeq(old, 1, n - 1)
                 /\ DOMAIN new[n] = DOMAIN old[n] \cup {symtab.name}
                 /\ \A k \in DOMAIN old[n] : new[n][k] = old[n][k]
                 /\ new[n][symtab.name].kind =
                        (IF symtab.op = "define_variable" THEN "Variable" ELSE "Function")

\* After exit_scope has popped a scope, every lookup answers as the
\* remaining scopes alone do: a name bound only in the popped scope is not
\* found, a name of an outer scope is found with its outer binding.
C22_ExitRule ==
    (symtab.op = "exit_scope" /\ Len(symtab.before.scopes) > 1) =>
        /\ symtab.table.scopes =
              SubSeq(symtab.before.scopes, 1, Len(symtab.before.scopes) - 1)
        /\ \A name \in SymNames :
              /\ ScopesWithVariable(symtab.table.scopes, name) = {}
                    => lookup_variable(symtab.table, name) = None
              /\ \A i \in ScopesWithVariable(symtab.table.scopes, name) :
                    i = Innermost(ScopesWithVariable(symtab.table.scopes, name))
                       => lookup_variable(symtab.table, name)
                             = Some(symtab.table.scopes[i][name].ty)

\* C22 as stated: lookup_variable answers with the binding of the innermost
\* scope that defines the name, whatever kind of symbol that binding is.
C22_LookupInnermostDefinition ==
    /\ C22_DefineRule
    /\ C22_ExitRule
    /\ \A name \in SymNames :
          lookup_variable(symtab.table, name) =
             (IF ScopesDefining(symtab.table.scopes, name) = {} THEN None
              ELSE VariableOf(symtab.table.scopes[
                       Innermost(ScopesDefining(symtab.table.scopes, name))][name]))

\* C22 (amended): a duplicate definition in the innermost scope fails with
\* DuplicateDefinition and changes nothing, the same name is accepted in a
\* newly entered scope, exit_scope uncovers the outer bindings, and
\* lookup_variable answers with the type bound by the innermost scope that
\* defines the name as a variable, passing over function symbols.
C22_ScopedDefinitions ==
    /\ C22_DefineRule
    /\ C22_ExitRule
    /\ \A name \in SymNames :
          lookup_variable(symtab.table, name) =
             (IF ScopesWithVariable(symtab.table.scopes, name) = {} THEN None
              ELSE Some(symtab.table.scopes[
                       Innermost(ScopesWithVariable(symtab.table.scopes, name))][name].ty))

\* balance is uint256 in the global scope and address in an inner scope,
\* where a second definition of balance has just been refused.
C22_Witness ==
    /\ symtab.op = "define_variable" /\ symtab.name = "balance"
    /\ symtab.result = DuplicateDefinition
    /\ Len(symtab.table.scopes) = 2
    /\ DefinedIn(symtab.table.scopes[1], "balance")
    /\ DefinedIn(symtab.table.scopes[2], "balance")
    /\ symtab.table.scopes[1]["balance"] = VariableSym(Simple("uint256"))
    /\ symtab.table.scopes[2]["balance"] = VariableSym(Simple("address"))
    /\ lookup_variable(symtab.table, "balance") = Some(Simple("address"))

(***************************************************************************)
(* C28: StateChangeAfterExternalCall comes with an earlier ReentrancyRisk. *)
(***************************************************************************)
\* C28: every StateChangeAfterExternalCall warning in the list returned by
\* the security pass has a ReentrancyRisk warning for the same function at
\* an earlier position of that list.
C28_ReentrancyRiskFirst ==
    sec.calls >= 1 =>
        \A j \in 1..Len(sec.warnings) :
            sec.warnings[j].kind = "StateChangeAfterExternalCall" =>
                \E i \in 1..(j - 1) :
                    sec.warnings[i] = Warning("ReentrancyRisk", sec.warnings[j].function)

\* drain calls token.send and then assigns self.balance inside a while loop:
\* MissingAccessControl, ReentrancyRisk, StateChangeAfterExternalCall.
C28_Witness ==
    /\ sec.calls >= 1
    /\ SecFunction.name = "drain"
    /\ SecFunction.body = <<While(AmountPositive, <<ExprStmt(ExternalCall), SetBalance>>)>>
    /\ sec.warnings = <<Warning("MissingAccessControl", "drain"),
                        Warning("ReentrancyRisk", "drain"),
                        Warning("StateChangeAfterExternalCall", "drain")>>

(***************************************************************************)
(* Specification of the analyzer on bodies that assign variables inside    *)
(* if, while and for statements and read them afterwards.                  *)
(***************************************************************************)
\* x = 1 and let b: bool = true
AssignX == Assign(Ident("x"), None, IntLiteral("1"))
LetB == Assign(Ident("b"), Some(BoolType), BoolLiteral(TRUE))

\* let p: T = n, accepted exactly when n resolves to a type compatible
\* with T, and require(n), accepted when n is bool or does not resolve.
Probe(n, T) == Assign(Ident("p"), Some(T), Ident(n))
RequireProbe(n) == Require(Ident(n))

ProbedNames == {"x", "b", "i", "to"}
ProbeTypes == {BoolType, Uint256, Address}

\* Statements that are accepted on their own and assign x or b in a nested
\* body, or bind a loop variable.
NestingStmts ==
    {If(AmountPositive, <<AssignX>>, <<>>, None),
     If(AmountPositive, <<Pass>>, <<<<AmountPositive, <<LetB>>>>>>, Some(<<AssignX>>)),
     While(AmountPositive, <<AssignX>>),
     While(AmountPositive, <<If(AmountPositive, <<LetB>>, <<>>, None)>>),
     For("i", RangeOfAmount, <<AssignX>>),
     For("i", RangeOfAmount, <<While(AmountPositive, <<LetB>>)>>),
     For("i", RangeOfAmount, <<For("i", RangeOfAmount, <<AssignX>>)>>),
     For("to", RangeOfAmount, <<Pass>>),
     If(AmountPositive, <<For("i", RangeOfAmount, <<LetB>>)>>, <<>>, None)}

\* for v in range(amount): let p: T = v
InLoopProbes == {For(v, RangeOfAmount, <<Probe(v, T)>>) : v \in {"i", "to"}, T \in ProbeTypes}

ScopeStmts ==
    NestingStmts \cup InLoopProbes
        \cup {Probe(n, T) : n \in ProbedNames, T \in ProbeTypes}
        \cup {RequireProbe(n) : n \in ProbedNames}

InitScoping ==
    /\ InitLex
    /\ tc = 0 /\ sec = 0 /\ cg = 0 /\ evm = 0 /\ sl = 0
    /\ raw = 0 /\ ps = 0 /\ symtab = 0 /\ vm = 0
    /\ \E len \in 1..MaxBodyLen :
          \E body \in [1..len -> ScopeStmts] :
             an = [inst |-> NewAnalyzer, input |-> GenModule("f", <<>>, None, body),
                   calls |-> 0, result |-> Pending, warnings |-> <<>>]

NextScoping == Analyze

SpecScoping == InitScoping /\ [][NextScoping]_vars

(***************************************************************************)
(* C26: if and while bodies share the enclosing scope, for opens one.      *)
(***************************************************************************)
\* The variables a statement list leaves bound in the scope it runs in:
\* those assigned directly or inside if and while bodies, with the type of
\* their annotation or of the literal assigned; nothing from a for body.
RECURSIVE LeftBound(_)
LeftBound(stmts) ==
    IF stmts = <<>> THEN {}
    ELSE LET st == Head(stmts)
         IN  (CASE st.k = "Assign" /\ st.target.k = "Ident" ->
                      {<<st.target.name,
                         IF st.type_annotation.some THEN st.type_annotation.v ELSE Uint256>>}
                [] st.k = "If" ->
                      LeftBound(st.then_branch)
                        \cup UNION {LeftBound(st.elif_branches[j][2]) :
                                       j \in 1..Len(st.elif_branches)}
                        \cup (IF st.else_branch.some THEN LeftBound(st.else_branch.v) ELSE {})
                [] st.k = "While" -> LeftBound(st.body)
                [] OTHER -> {})
               \cup LeftBound(Tail(stmts))

\* The type a name has for the statement after st in the body of f: the
\* parameter to, or a variable st leaves bound.
ParamTypes == {<<"to", Address>>}
TypeAfter(st, n) == {b[2] : b \in {c \in LeftBound(<<st>>) \cup ParamTypes : c[1] = n}}

ScopedBody == AnalyzedFunction.body

\* A first statement from NestingStmts followed by a probe of a name.
C26_ProbeAfter ==
    (an.calls = 1 /\ Len(ScopedBody) = 2 /\ ScopedBody[1] \in NestingStmts) =>
        /\ \A n \in ProbedNames, T \in ProbeTypes :
              ScopedBody[2] = Probe(n, T) =>
                 an.result = (IF T \in TypeAfter(ScopedBody[1], n) THEN NoErr ELSE TypeMismatch)
        /\ \A n \in ProbedNames :
              ScopedBody[2] = RequireProbe(n) =>
                 an.result = (IF TypeAfter(ScopedBody[1], n) \subseteq {BoolType}
                              THEN NoErr ELSE TypeMismatch)

\* Inside the loop the loop variable is uint256, also when the name is that
\* of a parameter of another type, and binding it is never a duplicate.
C26_LoopVariable ==
    an.calls = 1 =>
        /\ \A v \in {"i", "to"}, T \in ProbeTypes :
              (Last(ScopedBody) = For(v, RangeOfAmount, <<Probe(v, T)>>)
                  /\ \A j \in 1..(Len(ScopedBody) - 1) : ScopedBody[j] \in NestingStmts)
                => an.result = (IF T = Uint256 THEN NoErr ELSE TypeMismatch)
        /\ (\A i \in 1..Len(ScopedBody) : ScopedBody[i] \in NestingStmts)
                => an.result = NoErr
        /\ an.result # DuplicateDefinition

\* C26: a variable first assigned in an if or while body resolves with its
\* type in the statements after it; a for statement binds its variable as
\* uint256 in a scope of its own, so that neither the loop variable nor a
\* variable first assigned in the loop body resolves after the loop, and a
\* loop variable named like an outer variable is not a duplicate.
C26_BodyScopes == C26_ProbeAfter /\ C26_LoopVariable

\* while amount > 0: if amount > 0: let b: bool = true, then let p: bool = b
\* is accepted.
C26_Witness ==
    /\ an.calls = 1 /\ an.result = NoErr
    /\ ScopedBody = <<While(AmountPositive, <<If(AmountPositive, <<LetB>>, <<>>, None)>>),
                      Probe("b", BoolType)>>

\* for to in range(amount): pass, then let p: address = to is accepted: the
\* loop variable shadowed the parameter without an error and is gone.
C26_WitnessFor ==
    /\ an.calls = 1 /\ an.result = NoErr
    /\ ScopedBody = <<For("to", RangeOfAmount, <<Pass>>), Probe("to", Address)>>

(***************************************************************************)
(* Specification of one analyzer instance used for several modules: the    *)
(* first module is analyzed, and then again the same module or one of the  *)
(* follow-up modules, on the instance as the earlier calls left it.        *)
(***************************************************************************)
ReuseStmts ==
    {Pass,
     For("i", RangeOfAmount, <<AssignX>>),
     For("i", RangeOfAmount, <<For("to", RangeOfAmount, <<LetB>>)>>),
     For("i", RangeOfAmount, <<Probe("i", BoolType)>>),
     If(AmountPositive, <<For("i", RangeOfAmount, <<Pass>>)>>, <<>>,
        Some(<<For("i", RangeOfAmount, <<Probe("i", Address)>>)>>)),
     Probe("x", Uint256)}

\* A contract that declares the state variable value twice.
DuplicateStateVarModule ==
    Module(<<Contract("T", <<StateVar("value", Uint256), StateVar("value", Uint256)>>)>>)

\* contract <name>: total: uint256; fn g(n: uint256) with a loop in an if.
LoopModule(name) ==
    Module(<<Contract(name,
        <<StateVar("total", Uint256),
          Function("g", <<>>, <<Param("n", Uint256)>>, None,
              <<If(BinOp(Ident("n"), "Gt", IntLiteral("0")),
                   <<For("i", Call(Ident("range"), <<Ident("n")>>),
                         <<Assign(Ident("x"), None, Ident("i"))>>)>>,
                   <<>>, None)>>)>>)>>)

FollowUpModules == {LoopModule("U"), LoopModule("V"), EventOnlyModule, Module(<<>>)}

InitReuse ==
    /\ InitLex
    /\ tc = 0 /\ sec = 0 /\ cg = 0 /\ evm = 0 /\ sl = 0
    /\ raw = 0 /\ ps = 0 /\ symtab = 0 /\ vm = 0
    /\ \/ \E len \in 1..MaxBodyLen :
             \E body \in [1..len -> ReuseStmts] :
                an = [inst |-> NewAnalyzer, input |-> GenModule("f", <<>>, None, body),
                      calls |-> 0, result |-> Pending, warnings |-> <<>>]
       \/ an = [inst |-> NewAnalyzer, input |-> DuplicateStateVarModule,
                calls |-> 0, result |-> Pending, warnings |-> <<>>]

\* analyze(&mut self, module) called with another module on the instance
\* the earlier calls have used.
AnalyzeNext ==
    /\ an.calls >= 1
    /\ an.calls < MaxCalls
    /\ \E m \in FollowUpModules :
          LET A1 == analyze_passes(an.inst, m)
          IN  an' = [inst |-> A1, input |-> m, calls |-> an.calls + 1,
                     result |-> A1.err,
                     warnings |-> IF A1.err = NoErr THEN security_analyze(m) ELSE <<>>]
    /\ UNCHANGED <<lexVars, tc, sec, cg, evm, sl, raw, ps, symtab, vm>>

NextReuse == Analyze \/ AnalyzeNext

SpecReuse == InitReuse /\ [][NextReuse]_vars

(***************************************************************************)
(* C29: the scope stack is never empty and a successful analyze leaves it  *)
(* as deep as it found it.                                                 *)
(***************************************************************************)
ScopeDepth(A) == Len(A.scopes)

C29_AnalyzeStep ==
    /\ ScopeDepth(an.inst) >= 1 /\ ScopeDepth(an'.inst) >= 1
    /\ ScopeDepth(an'.inst) = 1 => exit_scope(an'.inst) = an'.inst
    /\ ScopeDepth(exit_scope(an'.inst)) >= 1
    /\ (an'.calls = an.calls + 1 /\ an'.result = NoErr)
          => ScopeDepth(an'.inst) = ScopeDepth(an.inst)

\* C29: the scope stack always holds at least the global scope, exit_scope
\* leaves a stack of one scope as it is, and an analyze call that returns
\* Ok ends with the stack as deep as it was when the call began.
C29_ScopesBalanced == [][C29_AnalyzeStep]_vars

\* The first module failed inside a for loop in function f and left four
\* scopes; the second call, on another contract with a loop, returned Ok
\* and left four scopes again.
C29_Witness ==
    /\ an.calls = 2 /\ an.result = NoErr
    /\ an.input = LoopModule("U")
    /\ ScopeDepth(an.inst) = 4
    /\ an.inst.contracts = {"T", "U"}

(***************************************************************************)
(* Parser.  The crate's parse_module (quorlin-parser/src/lib.rs) hands the *)
(* tokens to grammar_simple::ModuleParser, which build.rs generates from   *)
(* src/grammar_simple.lalrpop; that grammar is not among the sources, and  *)
(* parser.rs, a hand-written recursive descent, is not in the crate's      *)
(* module tree.  The cursor helpers, the types and the expressions below   *)
(* are translated from parser.rs.  The statements, the blocks, the members *)
(* and the items are the rules of the parser section of the specification  *)
(* (4.2), laid out as parser.rs lays them out; they part from parser.rs in *)
(* one place, the statement that no keyword opens (parse_assignment and    *)
(* parse_assignment_or_expr below).                                        *)
(*                                                                         *)
(* The token list is `toks`, the cursor `cur` is the index, from 0, of the *)
(* next token.  A token type with a payload is written as its Debug text   *)
(* without the quotes: Ident(foo), IntLiteral(1), Uint(uint256).           *)
(***************************************************************************)
IdentType(name) == "Ident(" \o name \o ")"
IntType(n) == "IntLiteral(" \o n \o ")"
UintType(size) == "Uint(" \o size \o ")"

IsIdentType(ty) == StartsWith(ty, "Ident(")
IsIntType(ty) == StartsWith(ty, "IntLiteral(")
IsUintType(ty) == StartsWith(ty, "Uint(")
\* The payload of a token type written Name(payload).
Payload(ty, name) == SubSeq(ty, Len(name) + 2, Len(ty) - 1)

\* Result<T, ParseError> together with the cursor the call leaves.
POk(cur, v) == [ok |-> TRUE, cur |-> cur, v |-> v]
\* ParseError::UnexpectedToken(self.current, message)
PErr(cur, msg) == [ok |-> FALSE, cur |-> cur, msg |-> msg]
UnexpectedEof(cur) == PErr(cur, "Unexpected end of file")

\* `let x = e?; body` is written
\*     CHOOSE res \in {IF ~x.ok THEN x ELSE body : x \in {e}} : TRUE
\* the value of the one-element set: e is evaluated once, x names its
\* value in the body, and the error of e is returned as it is.  A chain of
\* such statements reads from its last line upwards.

\* fn is_at_end(&self) / fn peek(&self), as the type of the next token
\* ("" for None).
is_at_end(toks, cur) == cur >= Len(toks)
peek_type(toks, cur) == IF cur < Len(toks) THEN toks[cur + 1].type ELSE ""

\* fn check(&self, token_type), for the token types without payload.
check(toks, cur, ty) == peek_type(toks, cur) = ty

\* fn check_ident(&self)
check_ident(toks, cur) == IsIdentType(peek_type(toks, cur))

\* fn advance(&mut self): the cursor after the call.
advance(toks, cur) == IF is_at_end(toks, cur) THEN cur ELSE cur + 1

\* fn skip_newlines(&mut self): the cursor after the call.
RECURSIVE skip_newlines(_, _)
skip_newlines(toks, cur) ==
    IF check(toks, cur, "Newline") THEN skip_newlines(toks, advance(toks, cur)) ELSE cur

\* fn consume(&mut self, token_type, message)
consume(toks, cur, ty, message) ==
    IF check(toks, cur, ty) THEN POk(advance(toks, cur), ty) ELSE PErr(cur, message)

\* fn consume_ident(&mut self, message)
consume_ident(toks, cur, message) ==
    IF is_at_end(toks, cur) THEN UnexpectedEof(cur)
    ELSE IF check_ident(toks, cur)
    THEN POk(advance(toks, cur), Payload(peek_type(toks, cur), "Ident"))
    ELSE PErr(cur, message)

\* fn parse_type(&mut self)
RECURSIVE parse_type(_, _)
parse_type(toks, cur) ==
    LET ty == peek_type(toks, cur)
    IN  IF is_at_end(toks, cur) THEN UnexpectedEof(cur)
        ELSE IF ty = "Bool" THEN POk(advance(toks, cur), Simple("bool"))
        ELSE IF ty = "Address" THEN POk(advance(toks, cur), Simple("address"))
        ELSE IF ty = "Str" THEN POk(advance(toks, cur), Simple("str"))
        ELSE IF IsUintType(ty) THEN POk(advance(toks, cur), Simple(Payload(ty, "Uint")))
        ELSE IF StartsWith(ty, "Int(") THEN POk(advance(toks, cur), Simple(Payload(ty, "Int")))
        ELSE IF StartsWith(ty, "BytesN(")
        THEN POk(advance(toks, cur), Simple(Payload(ty, "BytesN")))
        ELSE IF ty = "Mapping"
        THEN (CHOOSE res \in {IF ~r1.ok THEN r1 ELSE
             (CHOOSE res \in {IF ~key.ok THEN key ELSE
             (CHOOSE res \in {IF ~r2.ok THEN r2 ELSE
             (CHOOSE res \in {IF ~value.ok THEN value ELSE
             (CHOOSE res \in {IF ~r3.ok THEN r3 ELSE
                  POk(r3.cur, Mapping(key.v, value.v))
        : r3 \in {consume(toks, value.cur, "RBracket", "Expected ']'")}} : TRUE)
        : value \in {parse_type(toks, r2.cur)}} : TRUE)
        : r2 \in {consume(toks, key.cur, "Comma", "Expected ','")}} : TRUE)
        : key \in {parse_type(toks, r1.cur)}} : TRUE)
        : r1 \in {consume(toks, advance(toks, cur), "LBracket", "Expected '['")}} : TRUE)
        ELSE IF ty = "List"
        THEN (CHOOSE res \in {IF ~r1.ok THEN r1 ELSE
             (CHOOSE res \in {IF ~elem.ok THEN elem ELSE
             (CHOOSE res \in {IF ~r2.ok THEN r2 ELSE
                  POk(r2.cur, ListOf(elem.v))
        : r2 \in {consume(toks, elem.cur, "RBracket", "Expected ']'")}} : TRUE)
        : elem \in {parse_type(toks, r1.cur)}} : TRUE)
        : r1 \in {consume(toks, advance(toks, cur), "LBracket", "Expected '['")}} : TRUE)
        ELSE IF IsIdentType(ty) THEN POk(advance(toks, cur), Simple(Payload(ty, "Ident")))
        ELSE PErr(cur, "Expected type")

ComparisonOps ==
    [EqEq |-> "Eq", NotEq |-> "NotEq", Lt |-> "Lt", Gt |-> "Gt", LtEq |-> "LtEq", GtEq |-> "GtEq"]
AdditiveOps == [Plus |-> "Add", Minus |-> "Sub"]
MultiplicativeOps == [Star |-> "Mul", Slash |-> "Div", Percent |-> "Mod"]

RECURSIVE parse_expr(_, _)
RECURSIVE parse_args(_, _, _)
RECURSIVE postfix_loop(_, _)
RECURSIVE parse_primary(_, _)
RECURSIVE parse_atom_with_postfix(_, _)
RECURSIVE parse_unary(_, _)
RECURSIVE parse_postfix(_, _)
RECURSIVE parse_power(_, _)
RECURSIVE binary_rest(_, _, _)
RECURSIVE parse_level(_, _, _)

\* fn parse_primary(&mut self)
parse_primary(toks, cur) ==
    LET ty == peek_type(toks, cur)
    IN  IF is_at_end(toks, cur) THEN UnexpectedEof(cur)
        ELSE IF IsIntType(ty) THEN POk(advance(toks, cur), IntLiteral(Payload(ty, "IntLiteral")))
        ELSE IF StartsWith(ty, "StringLiteral(")
        THEN POk(advance(toks, cur), StringLiteral(Payload(ty, "StringLiteral")))
        ELSE IF ty = "True" THEN POk(advance(toks, cur), BoolLiteral(TRUE))
        ELSE IF ty = "False" THEN POk(advance(toks, cur), BoolLiteral(FALSE))
        ELSE IF ty = "None" THEN POk(advance(toks, cur), NoneLiteral)
        ELSE IF IsIdentType(ty) THEN POk(advance(toks, cur), Ident(Payload(ty, "Ident")))
        ELSE IF ty = "SelfKw" THEN POk(advance(toks, cur), Ident("self"))
        ELSE IF ty = "Address" THEN POk(advance(toks, cur), Ident("address"))
        ELSE IF ty = "Bool" THEN POk(advance(toks, cur), Ident("bool"))
        ELSE IF ty = "Str" THEN POk(advance(toks, cur), Ident("str"))
        ELSE IF IsUintType(ty) THEN POk(advance(toks, cur), Ident(Payload(ty, "Uint")))
        ELSE IF ty = "LParen"
        THEN (CHOOSE res \in {IF ~e.ok THEN e ELSE
             (CHOOSE res \in {IF ~r.ok THEN r ELSE
                  POk(r.cur, e.v)
        : r \in {consume(toks, e.cur, "RParen", "Expected ')' after expression")}} : TRUE)
        : e \in {parse_expr(toks, advance(toks, cur))}} : TRUE)
        ELSE PErr(cur, "Expected expression")

\* `loop { args.push(self.parse_expr()?); if !self.match_token(Comma) { break; } }`
parse_args(toks, cur, args) ==
    (CHOOSE res \in {IF ~e.ok THEN e ELSE
        IF check(toks, e.cur, "Comma")
        THEN parse_args(toks, advance(toks, e.cur), Append(args, e.v))
        ELSE POk(e.cur, Append(args, e.v))
        : e \in {parse_expr(toks, cur)}} : TRUE)

\* The argument list between `(` and `)`, the cursor being after `(`.
parse_call_args(toks, cur) ==
    (CHOOSE res \in {IF ~args.ok THEN args ELSE
    (CHOOSE res \in {IF ~r.ok THEN r ELSE POk(r.cur, args.v)
        : r \in {consume(toks, args.cur, "RParen", "Expected ')'")}} : TRUE)
        : args \in {IF check(toks, cur, "RParen") THEN POk(cur, <<>>) ELSE parse_args(toks, cur, <<>>)}} : TRUE)

\* The loop over the postfix operations `.`, `()` and `[]` of parse_postfix
\* and parse_atom_with_postfix, on the expression parsed so far.
postfix_loop(toks, e) ==
    IF check(toks, e.cur, "Dot")
    THEN (CHOOSE res \in {IF ~a.ok THEN a ELSE
              postfix_loop(toks, POk(a.cur, Attribute(e.v, a.v)))
        : a \in {consume_ident(toks, advance(toks, e.cur), "Expected attribute name")}} : TRUE)
    ELSE IF check(toks, e.cur, "LParen")
    THEN (CHOOSE res \in {IF ~args.ok THEN args ELSE
              postfix_loop(toks, POk(args.cur, Call(e.v, args.v)))
        : args \in {parse_call_args(toks, advance(toks, e.cur))}} : TRUE)
    ELSE IF check(toks, e.cur, "LBracket")
    THEN (CHOOSE res \in {IF ~index.ok THEN index ELSE
         (CHOOSE res \in {IF ~r.ok THEN r ELSE
              postfix_loop(toks, POk(r.cur, Index(e.v, index.v)))
        : r \in {consume(toks, index.cur, "RBracket", "Expected ']'")}} : TRUE)
        : index \in {parse_expr(toks, advance(toks, e.cur))}} : TRUE)
    ELSE e

\* fn parse_atom_with_postfix(&mut self)
parse_atom_with_postfix(toks, cur) ==
    (CHOOSE res \in {IF ~e.ok THEN e ELSE postfix_loop(toks, e)
        : e \in {parse_primary(toks, cur)}} : TRUE)

\* fn parse_unary(&mut self)
parse_unary(toks, cur) ==
    IF check(toks, cur, "Minus")
    THEN (CHOOSE res \in {IF ~e.ok THEN e ELSE POk(e.cur, UnaryOp("Neg", e.v))
        : e \in {parse_unary(toks, advance(toks, cur))}} : TRUE)
    ELSE IF check(toks, cur, "Plus")
    THEN (CHOOSE res \in {IF ~e.ok THEN e ELSE POk(e.cur, UnaryOp("Pos", e.v))
        : e \in {parse_unary(toks, advance(toks, cur))}} : TRUE)
    ELSE IF check(toks, cur, "Not")
    THEN (CHOOSE res \in {IF ~e.ok THEN e ELSE
              POk(e.cur, UnaryOp("Not", e.v))
        : e \in {parse_atom_with_postfix(toks, advance(toks, cur))}} : TRUE)
    ELSE parse_atom_with_postfix(toks, cur)

\* fn parse_postfix(&mut self)
parse_postfix(toks, cur) ==
    (CHOOSE res \in {IF ~e.ok THEN e ELSE postfix_loop(toks, e)
        : e \in {parse_unary(toks, cur)}} : TRUE)

\* fn parse_power(&mut self): right-associative.
parse_power(toks, cur) ==
    (CHOOSE res \in {IF ~e.ok THEN e ELSE
        IF check(toks, e.cur, "DoubleStar")
        THEN (CHOOSE res \in {IF ~right.ok THEN right ELSE
                  POk(right.cur, BinOp(e.v, "Pow", right.v))
        : right \in {parse_power(toks, advance(toks, e.cur))}} : TRUE)
        ELSE e
        : e \in {parse_postfix(toks, cur)}} : TRUE)

\* The operators of the four left-associative levels: 1 or, 2 and,
\* 3 comparison, 4 additive, 5 multiplicative.
LevelOps(level) ==
    CASE level = 1 -> [Or |-> "Or"]
      [] level = 2 -> [And |-> "And"]
      [] level = 3 -> ComparisonOps
      [] level = 4 -> AdditiveOps
      [] level = 5 -> MultiplicativeOps

\* `while let Some(token) = self.peek() { ... }` of a level, on the
\* expression parsed so far.
binary_rest(toks, level, e) ==
    IF peek_type(toks, e.cur) \in DOMAIN LevelOps(level)
    THEN (CHOOSE res \in {IF ~right.ok THEN right ELSE
              binary_rest(toks, level,
                  POk(right.cur,
                      BinOp(e.v, LevelOps(level)[peek_type(toks, e.cur)], right.v)))
        : right \in {parse_level(toks, level + 1, advance(toks, e.cur))}} : TRUE)
    ELSE e

\* parse_or (1), parse_and (2), parse_comparison (3), parse_additive (4),
\* parse_multiplicative (5): the next level, then the loop of this one.
parse_level(toks, level, cur) ==
    IF level = 6 THEN parse_power(toks, cur)
    ELSE (CHOOSE res \in {IF ~e.ok THEN e ELSE binary_rest(toks, level, e)
        : e \in {parse_level(toks, level + 1, cur)}} : TRUE)

parse_multiplicative(toks, cur) == parse_level(toks, 5, cur)
parse_additive(toks, cur) == parse_level(toks, 4, cur)
parse_comparison(toks, cur) == parse_level(toks, 3, cur)
parse_and(toks, cur) == parse_level(toks, 2, cur)
parse_or(toks, cur) == parse_level(toks, 1, cur)

\* fn parse_expr(&mut self)
parse_expr(toks, cur) == parse_or(toks, cur)

Break == [k |-> "Break"]
Continue == [k |-> "Continue"]
Raise(error, args) == [k |-> "Raise", error |-> error, args |-> args]

RECURSIVE parse_stmt(_, _)
RECURSIVE parse_block_loop(_, _, _)
RECURSIVE target_index_loop(_, _)
RECURSIVE parse_elifs(_, _, _)

\* The statements of a block, up to its Dedent (in parser.rs
\* `while !self.check(Dedent) && !self.is_at_end() { body.push(self.parse_stmt()?);
\* self.skip_newlines(); }`).
parse_block_loop(toks, cur, body) ==
    IF ~check(toks, cur, "Dedent") /\ ~is_at_end(toks, cur)
    THEN (CHOOSE res \in {IF ~st.ok THEN st ELSE
              parse_block_loop(toks, skip_newlines(toks, st.cur), Append(body, st.v))
        : st \in {parse_stmt(toks, cur)}} : TRUE)
    ELSE POk(cur, body)

\* Mutant: a block that is not indented is taken as an empty block, against
\* "Body is one or more statements inside the INDENT/DEDENT block".
parse_block_optional(toks, cur, indent_message, dedent_message) ==
    IF ~check(toks, skip_newlines(toks, cur), "Indent")
    THEN POk(skip_newlines(toks, cur), <<>>)
    ELSE (CHOOSE res \in {IF ~body.ok THEN body ELSE
         (CHOOSE res \in {IF ~r.ok THEN r ELSE
              POk(r.cur, body.v)
        : r \in {consume(toks, body.cur, "Dedent", dedent_message)}} : TRUE)
        : body \in {parse_block_loop(toks, skip_newlines(toks, cur) + 1, <<>>)}} : TRUE)

\* The block after a `:`, "Newline INDENT body DEDENT" with a body of one or
\* more statements: skip_newlines, consume Indent, the statement loop,
\* consume Dedent (in parser.rs the same lines of parse_function,
\* parse_if_stmt, parse_while_stmt and parse_for_stmt).
parse_block(toks, cur, indent_message, dedent_message) ==
    (CHOOSE res \in {IF ~r1.ok THEN r1 ELSE
    (CHOOSE res \in {IF ~body.ok THEN body ELSE
    (CHOOSE res \in {IF ~r2.ok THEN r2 ELSE
         POk(r2.cur, body.v)
        : r2 \in {consume(toks, body.cur, "Dedent", dedent_message)}} : TRUE)
        : body \in {parse_block_loop(toks, r1.cur, <<>>)}} : TRUE)
        : r1 \in {consume(toks, skip_newlines(toks, cur), "Indent", indent_message)}} : TRUE)

\* `while self.match_token(LBracket) { ... }` on the assignment target.
target_index_loop(toks, target) ==
    IF check(toks, target.cur, "LBracket")
    THEN (CHOOSE res \in {IF ~index.ok THEN index ELSE
         (CHOOSE res \in {IF ~r.ok THEN r ELSE
              target_index_loop(toks, POk(r.cur, Index(target.v, index.v)))
        : r \in {consume(toks, index.cur, "RBracket", "Expected ']'")}} : TRUE)
        : index \in {parse_expr(toks, advance(toks, target.cur))}} : TRUE)
    ELSE target

AssignOps == [Eq |-> "", PlusEq |-> "Add", MinusEq |-> "Sub", StarEq |-> "Mul", SlashEq |-> "Div"]

\* The kinds of expression a primary leaves in the tree, and an assignment
\* target: "a primary followed by any mix of .name and [expr] postfixes".
PrimaryKinds ==
    {"IntLiteral", "HexLiteral", "StringLiteral", "BoolLiteral", "NoneLiteral", "Ident"}
RECURSIVE is_target(_)
is_target(e) ==
    IF e.k \in {"Attribute", "Index"} THEN is_target(e.base) ELSE e.k \in PrimaryKinds

\* Mutant: the arm of Parser::parse_stmt in parser.rs (303-358) for a
\* statement that begins with self or an identifier: the target, the
\* assignment operator, the value, and no expression statement.
parse_assignment(toks, cur) ==
    (CHOOSE res \in {IF ~first.ok THEN first ELSE
    (CHOOSE res \in {IF ~target.ok THEN target ELSE
        IF peek_type(toks, target.cur) \notin DOMAIN AssignOps
        THEN PErr(target.cur, "Expected assignment operator")
        ELSE (CHOOSE res \in {IF ~value.ok THEN value ELSE
                  POk(skip_newlines(toks, value.cur),
                      Assign(target.v, None,
                             IF peek_type(toks, target.cur) = "Eq" THEN value.v
                             ELSE BinOp(target.v, AssignOps[peek_type(toks, target.cur)],
                                        value.v)))
        : value \in {parse_expr(toks, advance(toks, target.cur))}} : TRUE)
        : target \in {target_index_loop(toks, first)}} : TRUE)
        : first \in {IF check(toks, cur, "SelfKw") THEN (CHOOSE res \in {IF ~r.ok THEN r ELSE (CHOOSE res \in {IF ~a.ok THEN a ELSE POk(a.cur, Attribute(Ident("self"), a.v)) : a \in {consume_ident(toks, r.cur, "Expected attribute name")}} : TRUE) : r \in {consume(toks, advance(toks, cur), "Dot", "Expected '.' after 'self'")}} : TRUE) ELSE (CHOOSE res \in {IF ~i.ok THEN i ELSE POk(i.cur, Ident(i.v)) : i \in {consume_ident(toks, cur, "Expected identifier")}} : TRUE)}} : TRUE)

\* The statement that none of the statement keywords opens, "an assignment
\* or expression": an expression is parsed; when it is a target and an
\* assignment operator follows, the statement is the assignment (an
\* augmented one is desugared into `target = target op value`), and when
\* not, it is the expression statement.
parse_assignment_or_expr(toks, cur) ==
    (CHOOSE res \in {IF ~e.ok THEN e ELSE
        IF peek_type(toks, e.cur) \in DOMAIN AssignOps /\ is_target(e.v)
        THEN (CHOOSE res \in {IF ~value.ok THEN value ELSE
                  POk(skip_newlines(toks, value.cur),
                      Assign(e.v, None,
                             IF peek_type(toks, e.cur) = "Eq" THEN value.v
                             ELSE BinOp(e.v, AssignOps[peek_type(toks, e.cur)], value.v)))
        : value \in {parse_expr(toks, advance(toks, e.cur))}} : TRUE)
        ELSE POk(skip_newlines(toks, e.cur), ExprStmt(e.v))
        : e \in {parse_expr(toks, cur)}} : TRUE)

\* parse_stmt, the arm of `let`, the cursor being after the keyword.
parse_let(toks, cur) ==
    (CHOOSE res \in {IF ~i.ok THEN i ELSE
    (CHOOSE res \in {IF ~r1.ok THEN r1 ELSE
    (CHOOSE res \in {IF ~ty.ok THEN ty ELSE
    (CHOOSE res \in {IF ~r2.ok THEN r2 ELSE
    (CHOOSE res \in {IF ~value.ok THEN value ELSE
         POk(skip_newlines(toks, value.cur), Assign(Ident(i.v), Some(ty.v), value.v))
        : value \in {parse_expr(toks, r2.cur)}} : TRUE)
        : r2 \in {consume(toks, ty.cur, "Eq", "Expected '=' in let statement")}} : TRUE)
        : ty \in {parse_type(toks, r1.cur)}} : TRUE)
        : r1 \in {consume(toks, i.cur, "Colon", "Expected ':' after variable name")}} : TRUE)
        : i \in {consume_ident(toks, cur, "Expected variable name after 'let'")}} : TRUE)

\* parse_stmt, the arms of `emit Name(args)` and `raise Name(args)`, the
\* cursor being after the keyword.
parse_named_call(toks, cur, name_message) ==
    (CHOOSE res \in {IF ~name.ok THEN name ELSE
    (CHOOSE res \in {IF ~r.ok THEN r ELSE
    (CHOOSE res \in {IF ~args.ok THEN args ELSE
         POk(skip_newlines(toks, args.cur), [name |-> name.v, args |-> args.v])
        : args \in {parse_call_args(toks, r.cur)}} : TRUE)
        : r \in {consume(toks, name.cur, "LParen", "Expected '('")}} : TRUE)
        : name \in {consume_ident(toks, cur, name_message)}} : TRUE)

\* parse_stmt, the arm of `require(condition [, message])`, the cursor
\* being after the keyword; the message is parsed and not kept here.
parse_require(toks, cur) ==
    (CHOOSE res \in {IF ~r1.ok THEN r1 ELSE
    (CHOOSE res \in {IF ~condition.ok THEN condition ELSE
    (CHOOSE res \in {IF ~message.ok THEN message ELSE
    (CHOOSE res \in {IF ~r2.ok THEN r2 ELSE
         POk(skip_newlines(toks, r2.cur), Require(condition.v))
        : r2 \in {consume(toks, message.cur, "RParen", "Expected ')'")}} : TRUE)
        : message \in {IF check(toks, condition.cur, "Comma") THEN parse_expr(toks, advance(toks, condition.cur)) ELSE POk(condition.cur, NoneLiteral)}} : TRUE)
        : condition \in {parse_expr(toks, r1.cur)}} : TRUE)
        : r1 \in {consume(toks, cur, "LParen", "Expected '('")}} : TRUE)

\* The `elif cond : block` branches of an if statement.
parse_elifs(toks, cur, elif_branches) ==
    IF check(toks, cur, "Elif")
    THEN (CHOOSE res \in {IF ~elif_cond.ok THEN elif_cond ELSE
         (CHOOSE res \in {IF ~r.ok THEN r ELSE
         (CHOOSE res \in {IF ~elif_body.ok THEN elif_body ELSE
              parse_elifs(toks, elif_body.cur,
                          Append(elif_branches, <<elif_cond.v, elif_body.v>>))
        : elif_body \in {parse_block(toks, r.cur, "Expected indented block after elif", "Expected dedent after elif block")}} : TRUE)
        : r \in {consume(toks, elif_cond.cur, "Colon", "Expected ':' after elif condition")}} : TRUE)
        : elif_cond \in {parse_expr(toks, advance(toks, cur))}} : TRUE)
    ELSE POk(cur, elif_branches)

\* The `else : block` branch of an if statement.
parse_else(toks, cur) ==
    IF check(toks, cur, "Else")
    THEN (CHOOSE res \in {IF ~r.ok THEN r ELSE
         (CHOOSE res \in {IF ~else_body.ok THEN else_body ELSE
              POk(else_body.cur, Some(else_body.v))
        : else_body \in {parse_block(toks, r.cur, "Expected indented block after else", "Expected dedent after else block")}} : TRUE)
        : r \in {consume(toks, advance(toks, cur), "Colon", "Expected ':' after else")}} : TRUE)
    ELSE POk(cur, None)

\* `if cond : block {elif cond : block} [else : block]`, the cursor being
\* after `if`.
parse_if_stmt(toks, cur) ==
    (CHOOSE res \in {IF ~condition.ok THEN condition ELSE
    (CHOOSE res \in {IF ~r.ok THEN r ELSE
    (CHOOSE res \in {IF ~then_branch.ok THEN then_branch ELSE
    (CHOOSE res \in {IF ~elif_branches.ok THEN elif_branches ELSE
    (CHOOSE res \in {IF ~else_branch.ok THEN else_branch ELSE
         POk(else_branch.cur,
             If(condition.v, then_branch.v, elif_branches.v, else_branch.v))
        : else_branch \in {parse_else(toks, elif_branches.cur)}} : TRUE)
        : elif_branches \in {parse_elifs(toks, then_branch.cur, <<>>)}} : TRUE)
        : then_branch \in {parse_block(toks, r.cur, "Expected indented block after if", "Expected dedent after if block")}} : TRUE)
        : r \in {consume(toks, condition.cur, "Colon", "Expected ':' after if condition")}} : TRUE)
        : condition \in {parse_expr(toks, cur)}} : TRUE)

\* `while cond : block`, the cursor being after `while`.
parse_while_stmt(toks, cur) ==
    (CHOOSE res \in {IF ~condition.ok THEN condition ELSE
    (CHOOSE res \in {IF ~r.ok THEN r ELSE
    (CHOOSE res \in {IF ~body.ok THEN body ELSE
         POk(body.cur, While(condition.v, body.v))
        : body \in {parse_block(toks, r.cur, "Expected indented block after while", "Expected dedent after while block")}} : TRUE)
        : r \in {consume(toks, condition.cur, "Colon", "Expected ':' after while condition")}} : TRUE)
        : condition \in {parse_expr(toks, cur)}} : TRUE)

\* `for name in expr : block`, the cursor being after `for`.
parse_for_stmt(toks, cur) ==
    (CHOOSE res \in {IF ~variable.ok THEN variable ELSE
    (CHOOSE res \in {IF ~r1.ok THEN r1 ELSE
    (CHOOSE res \in {IF ~iterable.ok THEN iterable ELSE
    (CHOOSE res \in {IF ~r2.ok THEN r2 ELSE
    (CHOOSE res \in {IF ~body.ok THEN body ELSE
         POk(body.cur, For(variable.v, iterable.v, body.v))
        : body \in {parse_block(toks, r2.cur, "Expected indented block after for", "Expected dedent after for block")}} : TRUE)
        : r2 \in {consume(toks, iterable.cur, "Colon", "Expected ':' after for iterable")}} : TRUE)
        : iterable \in {parse_expr(toks, r1.cur)}} : TRUE)
        : r1 \in {consume(toks, variable.cur, "In", "Expected 'in' after variable")}} : TRUE)
        : variable \in {consume_ident(toks, cur, "Expected variable name after 'for'")}} : TRUE)

\* A statement after the newlines in front of it: the keyword-triggered
\* statements (let, return, pass, emit, require, if, while, for, break,
\* continue, raise), otherwise an assignment or expression.
parse_stmt_at(toks, cur) ==
    LET ty == peek_type(toks, cur)
        next == advance(toks, cur)
    IN  IF ty = "Let" THEN parse_let(toks, next)
        ELSE IF ty = "Return"
        THEN IF check(toks, next, "Newline")
             THEN POk(skip_newlines(toks, next), Return(None))
             ELSE (CHOOSE res \in {IF ~value.ok THEN value ELSE
                       POk(skip_newlines(toks, value.cur), Return(Some(value.v)))
        : value \in {parse_expr(toks, next)}} : TRUE)
        ELSE IF ty = "Pass" THEN POk(skip_newlines(toks, next), Pass)
        ELSE IF ty = "Emit"
        THEN (CHOOSE res \in {IF ~c.ok THEN c ELSE
                  POk(c.cur, Emit(c.v.name, c.v.args))
        : c \in {parse_named_call(toks, next, "Expected event name")}} : TRUE)
        ELSE IF ty = "Require" THEN parse_require(toks, next)
        ELSE IF ty = "If" THEN parse_if_stmt(toks, next)
        ELSE IF ty = "While" THEN parse_while_stmt(toks, next)
        ELSE IF ty = "For" THEN parse_for_stmt(toks, next)
        ELSE IF ty = "Break" THEN POk(skip_newlines(toks, next), Break)
        ELSE IF ty = "Continue" THEN POk(skip_newlines(toks, next), Continue)
        ELSE IF ty = "Raise"
        THEN (CHOOSE res \in {IF ~c.ok THEN c ELSE
                  POk(c.cur, Raise(c.v.name, c.v.args))
        : c \in {parse_named_call(toks, next, "Expected error name")}} : TRUE)
        ELSE parse_assignment_or_expr(toks, cur)

\* A statement: the newlines in front of it are skipped.
parse_stmt(toks, cur) == parse_stmt_at(toks, skip_newlines(toks, cur))

RECURSIVE parse_params(_, _, _)
\* `loop { name: type; params.push(..); if !self.match_token(Comma) { break; } }`
parse_params(toks, cur, params) ==
    (CHOOSE res \in {IF ~name.ok THEN name ELSE
    (CHOOSE res \in {IF ~r.ok THEN r ELSE
    (CHOOSE res \in {IF ~ty.ok THEN ty ELSE
        IF check(toks, ty.cur, "Comma")
        THEN parse_params(toks, advance(toks, ty.cur), Append(params, Param(name.v, ty.v)))
        ELSE POk(ty.cur, Append(params, Param(name.v, ty.v)))
        : ty \in {parse_type(toks, r.cur)}} : TRUE)
        : r \in {consume(toks, name.cur, "Colon", "Expected ':'")}} : TRUE)
        : name \in {consume_ident(toks, cur, "Expected parameter name")}} : TRUE)

\* `fn name ( params ) [ -> type ] :` Newline INDENT body DEDENT
parse_function(toks, cur, decorators) ==
    (CHOOSE res \in {IF ~r1.ok THEN r1 ELSE
    (CHOOSE res \in {IF ~name.ok THEN name ELSE
    (CHOOSE res \in {IF ~r2.ok THEN r2 ELSE
    (CHOOSE res \in {IF ~params.ok THEN params ELSE
    (CHOOSE res \in {IF ~r3.ok THEN r3 ELSE
    (CHOOSE res \in {IF ~return_type.ok THEN return_type ELSE
    (CHOOSE res \in {IF ~r4.ok THEN r4 ELSE
    (CHOOSE res \in {IF ~body.ok THEN body ELSE
         POk(body.cur,
             Function(name.v, decorators, params.v, return_type.v, body.v))
        : body \in {parse_block(toks, r4.cur, "Expected indented function body", "Expected dedent")}} : TRUE)
        : r4 \in {consume(toks, return_type.cur, "Colon", "Expected ':'")}} : TRUE)
        : return_type \in {IF check(toks, r3.cur, "Arrow") THEN (CHOOSE res \in {IF ~ty.ok THEN ty ELSE POk(ty.cur, Some(ty.v)) : ty \in {parse_type(toks, advance(toks, r3.cur))}} : TRUE) ELSE POk(r3.cur, None)}} : TRUE)
        : r3 \in {consume(toks, params.cur, "RParen", "Expected ')'")}} : TRUE)
        : params \in {IF check(toks, r2.cur, "RParen") THEN POk(r2.cur, <<>>) ELSE parse_params(toks, r2.cur, <<>>)}} : TRUE)
        : r2 \in {consume(toks, name.cur, "LParen", "Expected '('")}} : TRUE)
        : name \in {consume_ident(toks, r1.cur, "Expected function name")}} : TRUE)
        : r1 \in {consume(toks, cur, "Fn", "Expected 'fn'")}} : TRUE)

\* parse_contract_member, the state variable `name: type [= value]`.
parse_state_var(toks, cur) ==
    (CHOOSE res \in {IF ~name.ok THEN name ELSE
    (CHOOSE res \in {IF ~r.ok THEN r ELSE
    (CHOOSE res \in {IF ~ty.ok THEN ty ELSE
    (CHOOSE res \in {IF ~initial_value.ok THEN initial_value ELSE
         POk(skip_newlines(toks, initial_value.cur),
             [StateVar(name.v, ty.v) EXCEPT !.initial_value = initial_value.v])
        : initial_value \in {IF check(toks, ty.cur, "Eq") THEN (CHOOSE res \in {IF ~e.ok THEN e ELSE POk(e.cur, Some(e.v)) : e \in {parse_expr(toks, advance(toks, ty.cur))}} : TRUE) ELSE POk(ty.cur, None)}} : TRUE)
        : ty \in {parse_type(toks, r.cur)}} : TRUE)
        : r \in {consume(toks, name.cur, "Colon", "Expected ':'")}} : TRUE)
        : name \in {consume_ident(toks, cur, "Expected state variable or function")}} : TRUE)

\* A member: an optional leading `@decorator`, then a function or a state
\* variable.
parse_contract_member(toks, cur) ==
    (CHOOSE res \in {IF ~decorators.ok THEN decorators ELSE
        IF check(toks, decorators.cur, "Fn")
        THEN parse_function(toks, decorators.cur, decorators.v)
        ELSE parse_state_var(toks, decorators.cur)
        : decorators \in {IF check(toks, skip_newlines(toks, cur), "At") THEN (CHOOSE res \in {IF ~d.ok THEN d ELSE POk(skip_newlines(toks, d.cur), <<d.v>>) : d \in {consume_ident(toks, advance(toks, skip_newlines(toks, cur)), "Expected decorator name")}} : TRUE) ELSE POk(skip_newlines(toks, cur), <<>>)}} : TRUE)

RECURSIVE parse_members(_, _, _)
\* The members of a contract, up to its Dedent.
parse_members(toks, cur, body) ==
    IF ~check(toks, cur, "Dedent") /\ ~is_at_end(toks, cur)
    THEN (CHOOSE res \in {IF ~m.ok THEN m ELSE
              parse_members(toks, skip_newlines(toks, m.cur), Append(body, m.v))
        : m \in {parse_contract_member(toks, cur)}} : TRUE)
    ELSE POk(cur, body)

\* `contract Name :` Newline INDENT {member} DEDENT
parse_contract(toks, cur) ==
    (CHOOSE res \in {IF ~r1.ok THEN r1 ELSE
    (CHOOSE res \in {IF ~name.ok THEN name ELSE
    (CHOOSE res \in {IF ~r2.ok THEN r2 ELSE
    (CHOOSE res \in {IF ~r3.ok THEN r3 ELSE
    (CHOOSE res \in {IF ~body.ok THEN body ELSE
    (CHOOSE res \in {IF ~r4.ok THEN r4 ELSE
         POk(r4.cur, Contract(name.v, body.v))
        : r4 \in {consume(toks, body.cur, "Dedent", "Expected dedent")}} : TRUE)
        : body \in {parse_members(toks, r3.cur, <<>>)}} : TRUE)
        : r3 \in {consume(toks, skip_newlines(toks, r2.cur), "Indent", "Expected indented block")}} : TRUE)
        : r2 \in {consume(toks, name.cur, "Colon", "Expected ':'")}} : TRUE)
        : name \in {consume_ident(toks, r1.cur, "Expected contract name")}} : TRUE)
        : r1 \in {consume(toks, cur, "Contract", "Expected 'contract'")}} : TRUE)

\* Item::Import(ImportStmt { module, items }) and EventParam of an
\* Item::Event.
Import(module, items) == [k |-> "Import", module |-> module, items |-> items]
EventParam(n, t, indexed) == [name |-> n, type_annotation |-> t, indexed |-> indexed]

RECURSIVE import_path(_, _, _)
\* `while self.match_token(Dot) { module_path.push(consume_ident?) }` and
\* `module_path.join(".")`
import_path(toks, cur, module) ==
    IF check(toks, cur, "Dot")
    THEN (CHOOSE res \in {IF ~c.ok THEN c ELSE
              import_path(toks, c.cur, module \o "." \o c.v)
        : c \in {consume_ident(toks, advance(toks, cur), "Expected module component")}} : TRUE)
    ELSE POk(cur, module)

RECURSIVE import_names(_, _, _)
\* `loop { items.push(consume_ident?); if !self.match_token(Comma) { break; } }`
import_names(toks, cur, items) ==
    (CHOOSE res \in {IF ~n.ok THEN n ELSE
        IF check(toks, n.cur, "Comma")
        THEN import_names(toks, advance(toks, n.cur), Append(items, n.v))
        ELSE POk(n.cur, Append(items, n.v))
        : n \in {consume_ident(toks, cur, "Expected import name")}} : TRUE)

\* fn parse_import(&mut self)
parse_import(toks, cur) ==
    (CHOOSE res \in {IF ~r1.ok THEN r1 ELSE
    (CHOOSE res \in {IF ~first.ok THEN first ELSE
    (CHOOSE res \in {IF ~module.ok THEN module ELSE
    (CHOOSE res \in {IF ~r2.ok THEN r2 ELSE
    (CHOOSE res \in {IF ~items.ok THEN items ELSE
         POk(skip_newlines(toks, items.cur), Import(module.v, items.v))
        : items \in {import_names(toks, r2.cur, <<>>)}} : TRUE)
        : r2 \in {consume(toks, module.cur, "Import", "Expected 'import'")}} : TRUE)
        : module \in {import_path(toks, first.cur, first.v)}} : TRUE)
        : first \in {consume_ident(toks, r1.cur, "Expected module name")}} : TRUE)
        : r1 \in {consume(toks, cur, "From", "Expected 'from'")}} : TRUE)

\* parse_event, `let indexed = ...`: the identifier `indexed` in front of a
\* parameter name is consumed.
is_indexed(toks, cur) == check_ident(toks, cur) /\ peek_type(toks, cur) = IdentType("indexed")

RECURSIVE event_params(_, _, _)
\* `loop { indexed; name: type; params.push(..); if !self.match_token(Comma) { break; } }`
event_params(toks, cur, params) ==
    (CHOOSE res \in {IF ~name.ok THEN name ELSE
    (CHOOSE res \in {IF ~r.ok THEN r ELSE
    (CHOOSE res \in {IF ~ty.ok THEN ty ELSE
        IF check(toks, ty.cur, "Comma")
        THEN event_params(toks, advance(toks, ty.cur),
                          Append(params, EventParam(name.v, ty.v, is_indexed(toks, cur))))
        ELSE POk(ty.cur, Append(params, EventParam(name.v, ty.v, is_indexed(toks, cur))))
        : ty \in {parse_type(toks, r.cur)}} : TRUE)
        : r \in {consume(toks, name.cur, "Colon", "Expected ':'")}} : TRUE)
        : name \in {consume_ident(toks,
                                  IF is_indexed(toks, cur) THEN advance(toks, cur) ELSE cur,
                                  "Expected parameter name")}} : TRUE)

\* fn parse_event(&mut self)
parse_event(toks, cur) ==
    (CHOOSE res \in {IF ~r1.ok THEN r1 ELSE
    (CHOOSE res \in {IF ~name.ok THEN name ELSE
    (CHOOSE res \in {IF ~r2.ok THEN r2 ELSE
    (CHOOSE res \in {IF ~params.ok THEN params ELSE
    (CHOOSE res \in {IF ~r3.ok THEN r3 ELSE
         POk(skip_newlines(toks, r3.cur), Event(name.v, params.v))
        : r3 \in {consume(toks, params.cur, "RParen", "Expected ')'")}} : TRUE)
        : params \in {IF check(toks, r2.cur, "RParen") THEN POk(r2.cur, <<>>) ELSE event_params(toks, r2.cur, <<>>)}} : TRUE)
        : r2 \in {consume(toks, name.cur, "LParen", "Expected '('")}} : TRUE)
        : name \in {consume_ident(toks, r1.cur, "Expected event name")}} : TRUE)
        : r1 \in {consume(toks, cur, "Event", "Expected 'event'")}} : TRUE)

\* An item, by its first token that is not a Newline: `from`, `event`,
\* `contract`, otherwise an error.
parse_item(toks, cur) ==
    IF check(toks, skip_newlines(toks, cur), "From")
    THEN parse_import(toks, skip_newlines(toks, cur))
    ELSE IF check(toks, skip_newlines(toks, cur), "Event")
    THEN parse_event(toks, skip_newlines(toks, cur))
    ELSE IF check(toks, skip_newlines(toks, cur), "Contract")
    THEN parse_contract(toks, skip_newlines(toks, cur))
    ELSE PErr(skip_newlines(toks, cur), "Expected item (from, contract, or event)")

RECURSIVE parse_items(_, _, _)
\* The items of a module, up to Eof; newlines between items are skipped.
parse_items(toks, cur, items) ==
    IF ~is_at_end(toks, cur) /\ ~check(toks, cur, "Eof")
    THEN (CHOOSE res \in {IF ~item.ok THEN item ELSE
              parse_items(toks, skip_newlines(toks, item.cur), Append(items, item.v))
        : item \in {parse_item(toks, cur)}} : TRUE)
    ELSE POk(cur, items)

\* grammar_simple::ModuleParser::new().parse(tokens): the module, or the
\* error of the generated parser.
ModuleParser(toks) ==
    (CHOOSE res \in {IF ~items.ok THEN items ELSE
         POk(items.cur, Module(items.v))
        : items \in {parse_items(toks, skip_newlines(toks, 0), <<>>)}} : TRUE)

\* Result<Module, ParseError> of lib.rs.  ParseError::LalrpopError(position,
\* text): the text is the Debug text of the error of the generated parser,
\* which is not modelled.
ParseOk(module) == [ok |-> TRUE, v |-> module]
LalrpopError(position) == [ok |-> FALSE, error |-> "LalrpopError", position |-> position]

\* pub fn parse_module(tokens) of lib.rs:
\* `grammar_simple::ModuleParser::new().parse(..)
\*      .map_err(|e| ParseError::LalrpopError(0, format!("{:?}", e)))`
parse_module(tokens) ==
    IF ModuleParser(tokens).ok THEN ParseOk(ModuleParser(tokens).v) ELSE LalrpopError(0)

(***************************************************************************)
(* Specification of parsing: a source is written line by line under the    *)
(* header `contract C:` / `    fn f():`, tokenize() turns it into tokens   *)
(* and parse_module parses them.                                           *)
(***************************************************************************)
MaxLines == 2        \* lines written under the header

\* The lexemes of a line, before its Newline.
PassLine == <<"Pass">>
ReturnLine == <<"Return">>
AssignLine == <<IdentType("x"), "Eq", IntType("1")>>                    \* x = 1
CallLine == <<IdentType("foo"), "LParen", IdentType("x"), "RParen">>    \* foo(x)
SelfCallLine == <<"SelfKw", "Dot", IdentType("f"), "LParen", "RParen">> \* self.f()
SelfAssignLine == <<"SelfKw", "Dot", IdentType("v"), "Eq", IdentType("x")>>
BlankLine == <<>>
FnLine == <<"Fn", IdentType("g"), "LParen", "RParen", "Colon">>         \* fn g():
VarLine == <<IdentType("v"), "Colon", UintType("uint256")>>             \* v: uint256
IfLine == <<"If", IdentType("x"), "Colon">>                             \* if x:
\* event Ping(a: bool)
EventLine == <<"Event", IdentType("Ping"), "LParen", IdentType("a"), "Colon", "Bool", "RParen">>
\* from std.math import safe_add
ImportLine ==
    <<"From", IdentType("std"), "Dot", IdentType("math"), "Import", IdentType("safe_add")>>

LineShapes ==
    {PassLine, ReturnLine, AssignLine, CallLine, SelfCallLine, SelfAssignLine,
     BlankLine, FnLine, VarLine, IfLine, EventLine, ImportLine}
BodyColumns == {1, 5, 9, 13}

SourceLine(types, column) == [types |-> types, column |-> column]

HeaderLines ==
    <<SourceLine(<<"Contract", IdentType("C"), "Colon">>, 1),
      SourceLine(<<"Fn", IdentType("f"), "LParen", "RParen", "Colon">>, 5)>>

\* The length of the text of a lexeme of the line shapes.
KeywordWidths ==
    [Contract |-> 8, Fn |-> 2, Pass |-> 4, Return |-> 6, SelfKw |-> 4, If |-> 2,
     Event |-> 5, From |-> 4, Import |-> 6, Bool |-> 4]
WidthOf(ty) ==
    IF IsIdentType(ty) THEN Len(ty) - Len(IdentType(""))
    ELSE IF IsIntType(ty) THEN Len(ty) - Len(IntType(""))
    ELSE IF StartsWith(ty, "Uint(") THEN Len(ty) - Len(UintType(""))
    ELSE IF ty \in DOMAIN KeywordWidths THEN KeywordWidths[ty]
    ELSE 1

RECURSIVE ColumnOf(_, _)
\* The column of the k-th lexeme of a line, the lexemes of a line being
\* written one space apart.
ColumnOf(l, k) ==
    IF k = 1 THEN l.column
    ELSE ColumnOf(l, k - 1) + WidthOf(l.types[k - 1]) + 1

\* The lexemes of one line and its Newline, which ends the line right after
\* its last lexeme.
LexemesOfLine(l) ==
    [k \in 1..(Len(l.types) + 1) |->
        IF k <= Len(l.types) THEN Lexeme(l.types[k], ColumnOf(l, k), WidthOf(l.types[k]))
        ELSE Lexeme("Newline",
                    IF k = 1 THEN l.column
                    ELSE ColumnOf(l, k - 1) + WidthOf(l.types[k - 1]), 1)]

RECURSIVE LexemesOf(_)
LexemesOf(lines) ==
    IF lines = <<>> THEN <<>> ELSE LexemesOfLine(Head(lines)) \o LexemesOf(Tail(lines))

InitParse ==
    /\ InitLex
    /\ tc = 0 /\ an = 0 /\ sec = 0 /\ cg = 0 /\ evm = 0 /\ sl = 0
    /\ raw = 0 /\ symtab = 0 /\ vm = 0
    /\ ps = [lines |-> HeaderLines, stage |-> "source", tokens |-> 0, out |-> 0]

WriteLine ==
    /\ ps.stage = "source"
    /\ Len(ps.lines) < Len(HeaderLines) + MaxLines
    /\ \E types \in LineShapes, column \in BodyColumns :
          ps' = [ps EXCEPT !.lines = Append(@, SourceLine(types, column))]
    /\ UNCHANGED <<lexVars, tc, an, sec, cg, evm, sl, raw, symtab, vm>>

\* Lexer::tokenize on the source.
Tokenize ==
    /\ ps.stage = "source"
    /\ ps' = [ps EXCEPT !.stage = "tokens", !.tokens = tokenize(LexemesOf(ps.lines))]
    /\ UNCHANGED <<lexVars, tc, an, sec, cg, evm, sl, raw, symtab, vm>>

\* parse_module(tokens) on the tokens tokenize returned.
Parse ==
    /\ ps.stage = "tokens"
    /\ ps.tokens.ok
    /\ ps' = [ps EXCEPT !.stage = "parsed", !.out = parse_module(ps.tokens.tokens)]
    /\ UNCHANGED <<lexVars, tc, an, sec, cg, evm, sl, raw, symtab, vm>>

NextParse == WriteLine \/ Tokenize \/ Parse

SpecParse == InitParse /\ [][NextParse]_vars

(***************************************************************************)
(* C24: a parsed function has at least one statement.                      *)
(***************************************************************************)
\* The functions of a parsed module.
ParsedFunctions(module) ==
    UNION {{m \in SeqToSet(item.body) : m.k = "Function"} :
              item \in {i \in SeqToSet(module.items) : i.k = "Contract"}}

\* The lines that open a function, and for such a line the first line
\* after it that is not blank (0 when there is none).
IsFnLine(l) == Len(l.types) > 0 /\ l.types[1] = "Fn"
NextCodeLine(lines, i) ==
    LET later == {j \in (i + 1)..Len(lines) : lines[j].types # <<>>}
    IN  IF later = {} THEN 0 ELSE CHOOSE j \in later : \A k \in later : j <= k

\* A function header that no deeper indented line follows.
HasBlocklessFunction(lines) ==
    \E i \in 1..Len(lines) :
        /\ IsFnLine(lines[i])
        /\ \/ NextCodeLine(lines, i) = 0
           \/ lines[NextCodeLine(lines, i)].column <= lines[i].column

\* C24: every function of a successfully parsed module has a body of at
\* least one statement, and a source with a function header that no
\* indented statement follows is not parsed successfully.
C24_FunctionBodyNonEmpty ==
    (ps.stage = "parsed" /\ ps.out.ok) =>
        /\ \A f \in ParsedFunctions(ps.out.v) : Len(f.body) >= 1
        /\ ~HasBlocklessFunction(ps.lines)

\* fn f(): a blank line, then `x = 1` and `pass` one level deeper.
C24_Witness ==
    /\ ps.stage = "parsed" /\ ps.out.ok
    /\ ps.lines = HeaderLines \o <<SourceLine(AssignLine, 9), SourceLine(PassLine, 9)>>
    /\ ps.out.v = Module(<<Contract("C",
           <<Function("f", <<>>, <<>>, None,
                      <<Assign(Ident("x"), None, IntLiteral("1")), Pass>>)>>)>>)

\* fn f(): followed by nothing is refused: the block rule finds no Indent,
\* and parse_module returns LalrpopError at position 0.
BlocklessRefused ==
    /\ ps.stage = "parsed" /\ ~ps.out.ok
    /\ ps.lines = HeaderLines
    /\ ps.out = LalrpopError(0)

\* `pass` as the body of f, then an event at column 1: the module holds
\* the contract and the event.
EventAfterContract ==
    /\ ps.stage = "parsed" /\ ps.out.ok
    /\ ps.lines = HeaderLines \o <<SourceLine(PassLine, 9), SourceLine(EventLine, 1)>>
    /\ ps.out.v = Module(<<Contract("C", <<Function("f", <<>>, <<>>, None, <<Pass>>)>>),
                           Event("Ping", <<EventParam("a", Simple("bool"), FALSE)>>)>>)

\* The same with an import after the contract.
ImportAfterContract ==
    /\ ps.stage = "parsed" /\ ps.out.ok
    /\ ps.lines = HeaderLines \o <<SourceLine(PassLine, 9), SourceLine(ImportLine, 1)>>
    /\ ps.out.v = Module(<<Contract("C", <<Function("f", <<>>, <<>>, None, <<Pass>>)>>),
                           Import("std.math", <<"safe_add">>)>>)

(***************************************************************************)
(* C25: a statement without a keyword is an assignment or an expression.   *)
(***************************************************************************)
\* The statement a line of the source text stands for when none of the
\* statement keywords opens it: the assignment of an assignment line, the
\* expression statement of a bare call.
StatementOfLine(types) ==
    CASE types = AssignLine -> Assign(Ident("x"), None, IntLiteral("1"))
      [] types = SelfAssignLine -> Assign(Attribute(Ident("self"), "v"), None, Ident("x"))
      [] types = CallLine -> ExprStmt(Call(Ident("foo"), <<Ident("x")>>))
      [] types = SelfCallLine -> ExprStmt(Call(Attribute(Ident("self"), "f"), <<>>))

\* A source whose function body is one line without a keyword.
KeywordlessBody ==
    /\ Len(ps.lines) = Len(HeaderLines) + 1
    /\ ps.lines[Len(ps.lines)].column = 9
    /\ ps.lines[Len(ps.lines)].types \in {AssignLine, SelfAssignLine, CallLine, SelfCallLine}

MaxElifs == 2

\* The conditions are local variables, the bodies one assignment each to a
\* local variable of their own.
CondNames == <<"a", "b", "c", "d">>
ElifNames == <<"e1", "e2", "e3">>
Mark(name) == Assign(Ident(name), None, IntLiteral("1"))

\* if a: t = 1  elif b: e1 = 1  elif c: e2 = 1  [else: z = 1]
Branching(n, with_else) ==
    If(Ident(CondNames[1]), <<Mark("t")>>,
       [i \in 1..n |-> <<Ident(CondNames[i + 1]), <<Mark(ElifNames[i])>> >>],
       IF with_else THEN Some(<<Mark("z")>>) ELSE None)

InitBranching ==
    /\ InitLex
    /\ tc = 0 /\ an = 0 /\ sec = 0 /\ cg = 0 /\ evm = 0 /\ sl = 0
    /\ raw = 0 /\ ps = 0 /\ symtab = 0
    /\ \E n \in 0..MaxElifs, with_else \in BOOLEAN, indent \in {4, 8} :
          \E env \in [{CondNames[i] : i \in 1..(n + 1)} -> BOOLEAN] :
             vm = [stmt |-> Branching(n, with_else), indent |-> indent, env |-> env,
                   stage |-> "source", code |-> <<>>, pc |-> 1, blocks |-> <<>>,
                   executed |-> <<>>]

\* self.generate_statement(stmt, indent) on a generator without storage
\* variables.
GenerateStatement ==
    /\ vm.stage = "source"
    /\ vm' = [vm EXCEPT !.stage = "generated",
                        !.code = generate_statement(NewCodegen, vm.stmt, vm.indent).code]
    /\ UNCHANGED <<lexVars, tc, an, sec, cg, evm, sl, raw, ps, symtab>>

\* line.trim_start()
RECURSIVE TrimStart(_)
TrimStart(text) ==
    IF Len(text) > 0 /\ SubSeq(text, 1, 1) = " " THEN TrimStart(SubSeq(text, 2, Len(text)))
    ELSE text

\* The condition of `if <condition> {`.
ConditionOf(text) == SubSeq(text, 4, Len(text) - 2)

\* A line runs when every block that encloses it runs.
BlocksRun(blocks) == \A i \in 1..Len(blocks) : blocks[i]

\* One line of the emitted Yul: `if c {` opens a block that runs when c is
\* not zero, `{` one that runs as its surroundings do, `}` closes the
\* innermost block, a comment does nothing, any other line is a statement
\* and is executed when it is reached.
RunLine ==
    /\ vm.stage = "generated"
    /\ vm.pc <= Len(vm.code)
    /\ LET text == TrimStart(vm.code[vm.pc])
       IN  vm' = [vm EXCEPT
                    !.pc = @ + 1,
                    !.blocks =
                        IF StartsWith(text, "if ") /\ EndsWith(text, " {")
                        THEN Append(@, vm.env[ConditionOf(text)])
                        ELSE IF text = "{" THEN Append(@, TRUE)
                        ELSE IF text = "}" THEN SubSeq(@, 1, Len(@) - 1)
                        ELSE @,
                    !.executed =
                        IF ~StartsWith(text, "if ") /\ text \notin {"{", "}"}
                              /\ ~StartsWith(text, "//") /\ BlocksRun(vm.blocks)
                        THEN Append(@, text)
                        ELSE @]
    /\ UNCHANGED <<lexVars, tc, an, sec, cg, evm, sl, raw, ps, symtab>>

\* The end of the emitted text.
Finish ==
    /\ vm.stage = "generated"
    /\ vm.pc > Len(vm.code)
    /\ vm' = [vm EXCEPT !.stage = "done"]
    /\ UNCHANGED <<lexVars, tc, an, sec, cg, evm, sl, raw, ps, symtab>>

NextBranching == GenerateStatement \/ RunLine \/ Finish

SpecBranching == InitBranching /\ [][NextBranching]_vars

(***************************************************************************)
(* C30: the emitted Yul runs the branch the source statement runs.         *)
(***************************************************************************)
\* The body the source statement executes: the then branch when its
\* condition is true, otherwise the body of the first elif whose condition
\* is true, otherwise the else body, otherwise nothing.
RECURSIVE ElifTaken(_, _, _)
ElifTaken(elifs, else_branch, env) ==
    IF elifs = <<>> THEN (IF else_branch.some THEN else_branch.v ELSE <<>>)
    ELSE IF env[Head(elifs)[1].name] THEN Head(elifs)[2]
    ELSE ElifTaken(Tail(elifs), else_branch, env)

BranchTaken(st, env) ==
    IF env[st.condition.name] THEN st.then_branch
    ELSE ElifTaken(st.elif_branches, st.else_branch, env)

\* The statements of a body as they stand in the emitted text.
EmittedBody(body) == generate_statements(NewCodegen, body, 0).code

\* C30: the Yul emitted for an if/elif/else statement executes the
\* statements of at most one branch body, the one the source statement
\* executes: an elif body only when every condition before it is false and
\* its own is true, the else body only when every condition is false.
C30_OneBranchExecuted ==
    vm.stage = "done" => vm.executed = EmittedBody(BranchTaken(vm.stmt, vm.env))

\* What holds of the emitted text: the then body runs exactly when the
\* first condition is true, and a statement without elif and else is run
\* as the source runs it.
BranchlessIfFaithful ==
    (vm.stage = "done" /\ vm.stmt.elif_branches = <<>> /\ ~vm.stmt.else_branch.some) =>
        vm.executed = EmittedBody(BranchTaken(vm.stmt, vm.env))

\* if a: t = 1 else: z = 1 with a true: both bodies were executed.
BothBranchesRun ==
    /\ vm.stage = "done"
    /\ vm.stmt = Branching(0, TRUE)
    /\ vm.env["a"]
    /\ vm.executed = <<"let t := 1", "let z := 1">>

====
